---- MODULE Spec2Model ----
(***************************************************************************)
(* A model of the BaiyuAISpace2 backend (src-tauri):                       *)
(*   - the chat stream decoder, commands/llm.rs stream_message;            *)
(*   - the knowledge-base commands, knowledge_base/commands.rs, over the   *)
(*     SQLite tables of knowledge_base/db.rs.                              *)
(* The two parts share no state; each has its own specification            *)
(* (StreamSpec, KbSpec) that leaves the other part's variables alone.      *)
(***************************************************************************)
EXTENDS Integers, Sequences, FiniteSets, TLC

VARIABLES
    \* ---- stream_message (commands/llm.rs) ----
    provider,   \* request.provider
    sent,       \* what the server sends: [lines, nl, crlf]
    wire,       \* bytes of the response body not yet delivered by the transport
    buffer,     \* the local `buffer: String`
    events,     \* the "stream-chunk" events emitted so far, in order
    spc,        \* position of the stream_message future
    sresult,    \* its return value once it has returned
    \* ---- knowledge base (knowledge_base/commands.rs, knowledge_base/db.rs) ----
    foreign_keys,     \* whether the SQLite connections enforce foreign keys
    knowledge_bases,  \* table knowledge_bases: id -> row
    documents,        \* table documents: id -> row
    chunks,           \* table chunks: id -> row (with its rowid)
    vectors,          \* table vectors: chunk_id -> row
    chunks_fts,       \* table chunks_fts: rowid -> content (FTS5 is taken to
                      \* be part of the build: the canonical keyword path)
    db_mutex,         \* DbState's tokio Mutex: "free" or the command holding it
    imp,              \* the import_document call in flight, if any
    next_kb,          \* ids handed out so far by Uuid::new_v4 for bases
    next_doc,         \* and for documents
    \* ---- sessions and messages (db.rs, main.rs) ----
    sessions,   \* table sessions: id -> row
    messages,   \* table messages: id -> row
    tasks,      \* the command invocations in flight: task -> where it is
    \* ---- calls and what they return ----
    call,       \* the call of a pure function in progress: its arguments
    result      \* what the last call returned, and for whom, until the caller
                \* has taken it

streamVars == <<provider, sent, wire, buffer, events, spc, sresult>>

kbVars == <<foreign_keys, knowledge_bases, documents, chunks, vectors,
            chunks_fts, db_mutex, imp, next_kb, next_doc>>

sessVars == <<sessions, messages, tasks>>

fnVars == <<call, result>>

vars == <<streamVars, kbVars, sessVars, fnVars>>

\* Number of lines of a response body.
MaxLines == 2

\* Number of create_knowledge_base calls.
MaxKb == 2

\* Number of import_document calls that insert a Document row.
MaxDocs == 2

\* Number of chunks split_text returns for one file.
MaxChunks == 2

\* No read-only call is in progress; none has returned.
NoCall == [fn |-> "none"]

NoResult == [of |-> "none"]

(***************************************************************************)
(* Bytes and characters.  A body is a sequence of bytes; multi-byte ASCII  *)
(* runs that the decoder only ever compares as a whole are one token:      *)
(*   "P"  the prefix `data: `            "X"  the payload `[DONE]`         *)
(*   "{A" `{"delta":{"text":"`           "{O" `{"choices":[{"delta":{"content":"` *)
(*   "}"  the closing quote and brackets "J"  a payload that is not JSON   *)
(*   "E"  a line that is no data line (`event: ...`)                       *)
(*   "a"  an ASCII character of the delta text                             *)
(*   "M1","M2" the two bytes of one non-ASCII character "M" of the text    *)
(*   "R"  U+FFFD, which only decoding produces.                            *)
(***************************************************************************)
Providers == {"anthropic", "openai"}

Other(p) == IF p = "anthropic" THEN "openai" ELSE "anthropic"

JsonOpen(p) == IF p = "anthropic" THEN "{A" ELSE "{O"

TextChars == {"a", "M", "R"}

Whitespace == {"\r", " "}

Texts == {<<"a">>, <<"M">>, <<>>}

RECURSIVE Concat(_)
Concat(ss) == IF ss = <<>> THEN <<>> ELSE Head(ss) \o Concat(Tail(ss))

\* The UTF-8 encoding of a string: "M" takes two bytes.
RECURSIVE Utf8Encode(_)
Utf8Encode(s) ==
    IF s = <<>> THEN <<>>
    ELSE (IF Head(s) = "M" THEN <<"M1", "M2">> ELSE <<Head(s)>>)
         \o Utf8Encode(Tail(s))

\* String::from_utf8_lossy on one transport chunk: a lead byte without its
\* continuation byte, and a continuation byte without its lead byte, each
\* decode to U+FFFD.
RECURSIVE FromUtf8Lossy(_)
FromUtf8Lossy(bs) ==
    IF bs = <<>> THEN <<>>
    ELSE IF Head(bs) = "M1"
         THEN IF Len(bs) >= 2 /\ bs[2] = "M2"
              THEN <<"M">> \o FromUtf8Lossy(Tail(Tail(bs)))
              ELSE <<"R">> \o FromUtf8Lossy(Tail(bs))
         ELSE IF Head(bs) = "M2"
              THEN <<"R">> \o FromUtf8Lossy(Tail(bs))
              ELSE <<Head(bs)>> \o FromUtf8Lossy(Tail(bs))

(***************************************************************************)
(* What a server may send.  A line is                                      *)
(*   content  a JSON object carrying the provider's delta field with text  *)
(*   foreign  a JSON object without that field (the other dialect's shape) *)
(*   done     `data: [DONE]`        bad    `data: ` and a non-JSON payload *)
(*   event    a non-data line       blank  an empty line.                  *)
(***************************************************************************)
ServerLines ==
    [kind : {"content"}, text : Texts]
    \cup [kind : {"foreign", "done", "bad", "event", "blank"}, text : {<<>>}]

LineBytes(p, l) ==
    CASE l.kind = "content" -> <<"P", JsonOpen(p)>> \o Utf8Encode(l.text) \o <<"}">>
      [] l.kind = "foreign" -> <<"P", JsonOpen(Other(p)), "a", "}">>
      [] l.kind = "done"    -> <<"P", "X">>
      [] l.kind = "bad"     -> <<"P", "J">>
      [] l.kind = "event"   -> <<"E">>
      [] OTHER              -> <<>>

LineEnd(crlf) == IF crlf THEN <<"\r", "\n">> ELSE <<"\n">>

\* The bytes of a body: every line is followed by a line end, except the
\* last one when nl is FALSE.
RECURSIVE BodyBytes(_, _, _, _)
BodyBytes(p, lines, nl, crlf) ==
    IF lines = <<>> THEN <<>>
    ELSE LineBytes(p, Head(lines))
         \o (IF Len(lines) = 1 /\ ~nl THEN <<>> ELSE LineEnd(crlf))
         \o BodyBytes(p, Tail(lines), nl, crlf)

Bodies ==
    [lines : UNION {[1..n -> ServerLines] : n \in 0..MaxLines},
     nl : BOOLEAN, crlf : BOOLEAN]

(***************************************************************************)
(* The decoder.                                                            *)
(***************************************************************************)
\* buffer.find('\n'): the index of the first newline, 0 for None.
RECURSIVE FindFrom(_, _)
FindFrom(s, i) ==
    IF i > Len(s) THEN 0
    ELSE IF s[i] = "\n" THEN i ELSE FindFrom(s, i + 1)

Find(s) == FindFrom(s, 1)

\* str::trim
RECURSIVE TrimStart(_)
TrimStart(s) ==
    IF s # <<>> /\ Head(s) \in Whitespace THEN TrimStart(Tail(s)) ELSE s

RECURSIVE TrimEnd(_)
TrimEnd(s) ==
    IF s # <<>> /\ s[Len(s)] \in Whitespace
    THEN TrimEnd(SubSeq(s, 1, Len(s) - 1)) ELSE s

Trim(s) == TrimEnd(TrimStart(s))

None == [some |-> FALSE, text |-> <<>>]

Some(t) == [some |-> TRUE, text |-> t]

\* serde_json::from_str(data).ok(): the payload is one JSON object of either
\* dialect, its text made of characters only.
IsJson(data) ==
    /\ Len(data) >= 2
    /\ data[1] \in {"{A", "{O"}
    /\ data[Len(data)] = "}"
    /\ \A i \in 2..(Len(data) - 1) : data[i] \in TextChars

\* json["delta"]["text"].as_str() for anthropic,
\* json["choices"][0]["delta"]["content"].as_str() otherwise.
ExtractText(p, data) ==
    IF data[1] = JsonOpen(p) THEN Some(SubSeq(data, 2, Len(data) - 1)) ELSE None

ParseSseLine(p, line) ==
    IF ~(Len(line) >= 1 /\ line[1] = "P") THEN None
    ELSE LET data == Tail(line)
         IN IF data = <<"X">> THEN Some(<<>>)
            ELSE IF ~IsJson(data) THEN None
            ELSE ExtractText(p, data)

DoneEvent == [content |-> <<>>, done |-> TRUE]

ContentEvent(t) == [content |-> t, done |-> FALSE]

\* The event emitted for one parsed line, if any (llm.rs 279-296).
LineEvents(parsed) ==
    IF ~parsed.some THEN <<>>
    ELSE IF parsed.text = <<>> THEN <<DoneEvent>>
    ELSE <<ContentEvent(parsed.text)>>

\* while let Some(pos) = buffer.find('\n') { ... } (llm.rs 271-297)
RECURSIVE ProcessLines(_, _, _)
ProcessLines(p, buf, evs) ==
    LET pos == Find(buf)
    IN IF pos = 0 THEN [buffer |-> buf, events |-> evs]
       ELSE LET line == Trim(SubSeq(buf, 1, pos - 1))
                rest == SubSeq(buf, pos + 1, Len(buf))
            IN IF line = <<>> THEN ProcessLines(p, rest, evs)
               ELSE ProcessLines(p, rest, evs \o LineEvents(ParseSseLine(p, line)))

\* A decoder that leaves the terminal event to the server's [DONE] line.
FinalEvents_Omitted(evs) == evs

\* The events after the body has ended (llm.rs 300-306).
FinalEvents(evs) == Append(evs, DoneEvent)

StreamInit ==
    /\ provider \in Providers
    /\ sent \in Bodies
    /\ wire = BodyBytes(provider, sent.lines, sent.nl, sent.crlf)
    /\ buffer = <<>>
    /\ events = <<>>
    /\ spc = "start"
    /\ sresult = "none"
    \* the knowledge base is not used
    /\ foreign_keys = TRUE
    /\ knowledge_bases = <<>>
    /\ documents = <<>>
    /\ chunks = <<>>
    /\ vectors = <<>>
    /\ chunks_fts = <<>>
    /\ db_mutex = "free"
    /\ imp = [pc |-> "idle"]
    /\ next_kb = 1
    /\ next_doc = 1
    /\ sessions = <<>>
    /\ messages = <<>>
    /\ tasks = <<>>
    /\ call = NoCall
    /\ result = NoResult

StreamReturn(r) ==
    /\ spc' = "returned"
    /\ sresult' = r

\* get_api_key fails (llm.rs 239, 322-328).
StreamMissingApiKey ==
    /\ spc = "start"
    /\ StreamReturn("MissingApiKey")
    /\ UNCHANGED <<provider, sent, wire, buffer, events, kbVars, sessVars, fnVars>>

\* client.post(..).send().await? fails (llm.rs 249-254).
StreamRequestError ==
    /\ spc = "start"
    /\ StreamReturn("RequestError")
    /\ UNCHANGED <<provider, sent, wire, buffer, events, kbVars, sessVars, fnVars>>

\* The response status is not a success (llm.rs 256-260).
StreamApiError ==
    /\ spc = "start"
    /\ StreamReturn("ApiError")
    /\ UNCHANGED <<provider, sent, wire, buffer, events, kbVars, sessVars, fnVars>>

\* The response is a success: the body is read as a byte stream (llm.rs 262-263).
StreamConnected ==
    /\ spc = "start"
    /\ spc' = "reading"
    /\ UNCHANGED <<provider, sent, wire, buffer, events, sresult, kbVars, sessVars, fnVars>>

\* stream.next() yields the next k bytes (llm.rs 265-298).
StreamRecvChunk ==
    /\ spc = "reading"
    /\ wire # <<>>
    /\ \E k \in 1..Len(wire) :
          LET text == FromUtf8Lossy(SubSeq(wire, 1, k))
              r == ProcessLines(provider, buffer \o text, events)
          IN /\ wire' = SubSeq(wire, k + 1, Len(wire))
             /\ buffer' = r.buffer
             /\ events' = r.events
    /\ UNCHANGED <<provider, sent, spc, sresult, kbVars, sessVars, fnVars>>

\* stream.next() yields Err: chunk.map_err(StreamError)? (llm.rs 266).
StreamRecvError ==
    /\ spc = "reading"
    /\ StreamReturn("StreamError")
    /\ UNCHANGED <<provider, sent, wire, buffer, events, kbVars, sessVars, fnVars>>

\* stream.next() yields None: the final event and Ok(()) (llm.rs 300-308).
StreamEndOfBody ==
    /\ spc = "reading"
    /\ wire = <<>>
    /\ events' = FinalEvents(events)
    /\ StreamReturn("Ok")
    /\ UNCHANGED <<provider, sent, wire, buffer, kbVars, sessVars, fnVars>>

StreamNext ==
    \/ StreamMissingApiKey
    \/ StreamRequestError
    \/ StreamApiError
    \/ StreamConnected
    \/ StreamRecvChunk
    \/ StreamRecvError
    \/ StreamEndOfBody

StreamSpec == StreamInit /\ [][StreamNext]_vars

(***************************************************************************)
(* Properties of the stream decoder.                                       *)
(***************************************************************************)
LastIsDone(evs) == evs # <<>> /\ evs[Len(evs)].done

HasKind(lines, k) == \E i \in 1..Len(lines) : lines[i].kind = k

\* The texts the server sent in the provider's delta field, in order.
RECURSIVE ServerTexts(_)
ServerTexts(lines) ==
    IF lines = <<>> THEN <<>>
    ELSE (IF Head(lines).kind = "content" THEN <<Head(lines).text>> ELSE <<>>)
         \o ServerTexts(Tail(lines))

\* The contents of the done=false events, in emission order.
RECURSIVE EmittedTexts(_)
EmittedTexts(evs) ==
    IF evs = <<>> THEN <<>>
    ELSE (IF Head(evs).done THEN <<>> ELSE <<Head(evs).content>>)
         \o EmittedTexts(Tail(evs))

DoneCount(evs) == Cardinality({i \in 1..Len(evs) : evs[i].done})

\* C1: when the response body ends normally (stream_message returns Ok),
\* the last stream-chunk event emitted is a done=true event, whether or not
\* the server sent a `data: [DONE]` line.
C1_LastEventIsDone == sresult = "Ok" => LastIsDone(events)

\* C1 witness: a body without [DONE] that carried text has ended; the only
\* done=true event is the last one.
C1_Witness ==
    /\ sresult = "Ok"
    /\ ~HasKind(sent.lines, "done")
    /\ Len(events) >= 2
    /\ DoneCount(events) = 1
    /\ LastIsDone(events)

\* C2: every stream_message request has a done=true event as its last
\* event whatever its outcome: also when the byte stream fails mid-body
\* (StreamError, which is also how a body dropped upstream ends) and when
\* the request fails with an API error.
C2_TerminalDoneWhateverOutcome ==
    sresult \in {"Ok", "StreamError", "ApiError"} => LastIsDone(events)

\* The server sends content lines with text, then `data: [DONE]`, every
\* line terminated, and nothing else.
ContentThenDone ==
    /\ sent.nl
    /\ Len(sent.lines) >= 2
    /\ sent.lines[Len(sent.lines)].kind = "done"
    /\ \A i \in 1..(Len(sent.lines) - 1) :
          sent.lines[i].kind = "content" /\ sent.lines[i].text # <<>>

\* C3: for content lines followed by `data: [DONE]` and the end of the
\* body, the events are one done=false event per fragment, in order,
\* followed by exactly one done=true event.
C3_SingleTerminalEvent ==
    (sresult = "Ok" /\ ContentThenDone)
        => /\ DoneCount(events) = 1
           /\ LastIsDone(events)
           /\ Len(EmittedTexts(events)) = Len(sent.lines) - 1

\* Every `data: ` line of the body is valid JSON.
AllDataLinesJson ==
    \A i \in 1..Len(sent.lines) : sent.lines[i].kind \notin {"bad", "done"}

\* C4: when every `data: ` line is valid JSON, however the body is cut into
\* transport chunks and whether or not its last line ends with a newline,
\* the concatenation of the contents of the done=false events equals the
\* concatenation of the delta texts the server sent.
C4_ContentRoundTrip ==
    (sresult = "Ok" /\ AllDataLinesJson)
        => Concat(EmittedTexts(events)) = Concat(ServerTexts(sent.lines))

(***************************************************************************)
(* The knowledge base.                                                     *)
(***************************************************************************)
\* (provider, model) pairs a create request may carry.
EmbeddingRequests ==
    {<<"openai", "text-embedding-3-small">>, <<"zhipu", "embedding-2">>}

get_embedding_dimension(p, m) ==
    CASE p = "openai" /\ m = "text-embedding-3-small" -> 1536
      [] p = "openai" /\ m = "text-embedding-3-large" -> 3072
      [] p = "openai" /\ m = "text-embedding-ada-002" -> 1536
      [] p = "zhipu" -> 1024
      [] p = "siliconflow" -> 1024
      [] OTHER -> 1536

\* Lengths of the vectors an embedding API may return.
EmbLens == {1024, 1536}

\* What the embedding API may answer Ok with: any number of vectors (each
\* modelled by its length, here one length for all vectors of an answer);
\* parse_embedding_response checks neither (embedding.rs 106-147).
EmbeddingResponses ==
    {[j \in 1..m |-> len] : m \in 0..(MaxChunks + 1), len \in EmbLens}

\* The files import_document may be given: one that cannot be read, one
\* parse_document rejects, or a text that split_text cuts into n chunks.
Files ==
    [kind : {"missing", "unsupported"}, n : {0}]
    \cup [kind : {"text"}, n : 0..MaxChunks]

\* split_text(parse_document(f)): the i-th chunk of a text of n chunks.
SplitText(f) == [i \in 1..f.n |-> <<"chunk", f.n, i>>]

KbIds == 1..MaxKb

DocIds == 1..MaxDocs

\* Uuid::new_v4() for the i-th chunk (counted from 0) of a document.
ChunkId(doc, i) == <<doc, i>>

NoImport ==
    [pc |-> "idle", kb_id |-> 0, doc_id |-> 0, file |-> [kind |-> "missing", n |-> 0]]

\* ---- SQL helpers ----
\* INSERT (OR REPLACE) of the row v under primary key k.
Insert(t, k, v) == [x \in DOMAIN t \cup {k} |-> IF x = k THEN v ELSE t[x]]

\* DELETE of the rows whose key is in S.
Delete(t, S) == [x \in DOMAIN t \ S |-> t[x]]

SetMax(S) == CHOOSE x \in S : \A y \in S : y <= x

Min(a, b) == IF a <= b THEN a ELSE b

\* The rowid SQLite gives the next row of chunks (a rowid table without
\* AUTOINCREMENT): one more than the largest rowid in use.
NextRowid(ch) ==
    IF DOMAIN ch = {} THEN 1 ELSE SetMax({ch[c].rowid : c \in DOMAIN ch}) + 1

ChunksOfDocs(ch, D) == {c \in DOMAIN ch : ch[c].document_id \in D}

\* Whether foreign keys are enforced is set where SQLite is built, outside
\* the sources modelled here, and by no PRAGMA of them; the metadata store
\* is specified as enforcing them ("Foreign keys with cascade-on-delete
\* enforce ownership invariants").
ForeignKeysEnforced == TRUE

\* documents(id) <- chunks.document_id ON DELETE CASCADE and
\* chunks(id) <- vectors.chunk_id ON DELETE CASCADE (db.rs 271, 290),
\* in effect when foreign keys are enforced.
CascadeChunks(ch, gone) == IF foreign_keys THEN Delete(ch, gone) ELSE ch

CascadeVectors(vec, gone) == IF foreign_keys THEN Delete(vec, gone) ELSE vec

\* ---- import_document ----
\* The Document row of commands.rs 199-215.
NewDocument(kb) ==
    [kb_id |-> kb, status |-> "processing", chunk_count |-> 0, error_message |-> "none"]

\* An index counted from 1.
ChunkIndex_FromOne(i) == i + 1

\* chunk_index of the i-th chunk, counted from 0 (commands.rs 245, 260).
ChunkIndex(i) == i

\* One pass of the loop of commands.rs 245-273: the chunk row, then its
\* posting under last_insert_rowid(); an error of the posting is ignored.
InsertChunk(st, doc, kb, texts, i) ==
    LET rid == NextRowid(st.chunks)
        row == [document_id |-> doc, kb_id |-> kb, content |-> texts[i + 1],
                chunk_index |-> ChunkIndex(i), rowid |-> rid]
    IN [chunks |-> Insert(st.chunks, ChunkId(doc, i), row),
        fts |-> IF rid \notin DOMAIN st.fts
                THEN Insert(st.fts, rid, texts[i + 1]) ELSE st.fts]

\* The passes i .. upto-1 of that loop.
RECURSIVE InsertChunks(_, _, _, _, _, _)
InsertChunks(st, doc, kb, texts, i, upto) ==
    IF i >= upto THEN st
    ELSE InsertChunks(InsertChunk(st, doc, kb, texts, i), doc, kb, texts, i + 1, upto)

\* all_chunk_ids.iter().zip(chunks.iter()).zip(embeddings.iter()): the rows
\* handed to insert_vectors, as many as the shortest list (commands.rs 284-290).
ZipVectors(doc, n, embeddings) ==
    [j \in 1..Min(n, Len(embeddings)) |->
        [chunk_id |-> ChunkId(doc, j - 1), document_id |-> doc, vector |-> embeddings[j]]]

\* vector_to_bytes: four bytes for each f32 (db.rs 188-193).  A vector is
\* modelled by its length, its blob by its number of bytes.
VectorToBytes(len) == 4 * len

\* VectorStore::insert_vectors: INSERT OR REPLACE of the first `upto` rows;
\* a row of any length is stored (db.rs 60-84).
RECURSIVE InsertVectors(_, _, _, _)
InsertVectors(vec, kb, rows, upto) ==
    IF upto = 0 THEN vec
    ELSE LET r == rows[upto]
         IN Insert(InsertVectors(vec, kb, rows, upto - 1), r.chunk_id,
                   [document_id |-> r.document_id, kb_id |-> kb,
                    vector |-> VectorToBytes(r.vector)])

\* chunk_count written with status = 'completed' (commands.rs 239, 296-299).
ChunkCount(n) == n

SetStatus(docs, d, s, msg) ==
    [docs EXCEPT ![d].status = s, ![d].error_message = msg]

\* The UPDATE without its WHERE clause: every row is set.
Complete_EveryRow(docs, d, n) ==
    [x \in DOMAIN docs |->
        [docs[x] EXCEPT !.status = "completed", !.chunk_count = ChunkCount(n)]]

\* UPDATE documents SET status = 'completed', chunk_count = ?1 WHERE id = ?2
Complete(docs, d, n) ==
    [docs EXCEPT ![d].status = "completed", ![d].chunk_count = ChunkCount(n)]

\* UPDATE knowledge_bases SET document_count = document_count + by WHERE id = kb
AddDocumentCount(kbs, kb, by) ==
    IF kb \in DOMAIN kbs
    THEN [kbs EXCEPT ![kb].document_count = @ + by] ELSE kbs

(***************************************************************************)
(* Retrieval.  A score is a fraction [num, den] with den > 0: the cosine   *)
(* similarities and the reciprocal ranks are compared exactly.             *)
(***************************************************************************)
Rat(n, d) == [num |-> n, den |-> d]

RatAdd(a, b) == [num |-> a.num * b.den + b.num * a.den, den |-> a.den * b.den]

RatEq(a, b) == a.num * b.den = b.num * a.den

RatGt(a, b) == a.num * b.den > b.num * a.den

RatGeq(a, b) == a.num * b.den >= b.num * a.den

\* Vec::truncate(top_k as usize)
Truncate(seq, top_k) == SubSeq(seq, 1, Min(top_k, Len(seq)))

\* Iterator::filter(|c| c.score >= similarity_threshold)
RECURSIVE FilterByThreshold(_, _)
FilterByThreshold(seq, threshold) ==
    IF seq = <<>> THEN <<>>
    ELSE (IF RatGeq(Head(seq).score, threshold) THEN <<Head(seq)>> ELSE <<>>)
         \o FilterByThreshold(Tail(seq), threshold)

\* The place of x in an already sorted list: behind every element whose
\* score is not lower, as a stable sort leaves it.
RECURSIVE InsertByScore(_, _)
InsertByScore(sorted, x) ==
    IF sorted = <<>> THEN <<x>>
    ELSE IF RatGt(x.score, Head(sorted).score) THEN <<x>> \o sorted
    ELSE <<Head(sorted)>> \o InsertByScore(Tail(sorted), x)

\* slice::sort_by(|a, b| b.score.partial_cmp(&a.score).unwrap()): a stable
\* sort, descending by score.
RECURSIVE SortByScoreFrom(_, _)
SortByScoreFrom(sorted, rest) ==
    IF rest = <<>> THEN sorted
    ELSE SortByScoreFrom(InsertByScore(sorted, Head(rest)), Tail(rest))

\* A sort that puts an element before its equals: not stable.
SortByScore_Unstable(seq) ==
    LET RECURSIVE Ins(_, _)
        Ins(sorted, x) ==
            IF sorted = <<>> THEN <<x>>
            ELSE IF RatGeq(x.score, Head(sorted).score) THEN <<x>> \o sorted
            ELSE <<Head(sorted)>> \o Ins(Tail(sorted), x)
        RECURSIVE From(_, _)
        From(sorted, rest) ==
            IF rest = <<>> THEN sorted ELSE From(Ins(sorted, Head(rest)), Tail(rest))
    IN From(<<>>, seq)

SortByScore(seq) == SortByScoreFrom(<<>>, seq)

\* VectorStore::search after its SELECT: `rows` are the rows of the base in
\* the order of the scan, each with its cosine similarity to the query
\* vector; sort, then truncate (db.rs 119-137).
VectorStoreSearch(rows, top_k) == Truncate(SortByScore(rows), top_k)

\* let k = 60.0 (retrieval.rs 343)
RrfK == 60

\* A reciprocal rank that forgets the rank.
RrfScore_RankIgnored(rank) == Rat(1, RrfK)

\* 1.0 / (k + rank as f32) (retrieval.rs 348, 360)
RrfScore(rank) == Rat(1, RrfK + rank)

\* What the two loops of merge_results add up for chunk id: the reciprocal
\* rank of every place of `list`, from `rank` on, that holds it.
RECURSIVE RrfSum(_, _, _)
RrfSum(list, id, rank) ==
    IF rank >= Len(list) THEN Rat(0, 1)
    ELSE IF list[rank + 1].id = id
         THEN RatAdd(RrfScore(rank), RrfSum(list, id, rank + 1))
         ELSE RrfSum(list, id, rank + 1)

SeqIds(list) == {list[i].id : i \in 1..Len(list)}

\* Option<f32>
NoScore == [some |-> FALSE]

SomeScore(x) == [some |-> TRUE, value |-> x]

\* Option::or
OptionOr(opt, other) == IF opt.some THEN opt ELSE other

\* The first record of the list with that id.
FirstWithId(list, id) ==
    list[CHOOSE i \in 1..Len(list) :
              /\ list[i].id = id
              /\ \A j \in 1..(i - 1) : list[j].id # id]

\* The last record of the list with that id.
LastWithId(list, id) ==
    list[CHOOSE i \in 1..Len(list) :
              /\ list[i].id = id
              /\ \A j \in (i + 1)..Len(list) : list[j].id # id]

\* A fusion whose second loop adds the reciprocal rank of a chunk the first
\* loop has inserted, and leaves its keyword_score as it was.
MergeEntries_KeywordScoreKept(vector_chunks, keyword_chunks) ==
    {LET c == IF id \in SeqIds(vector_chunks)
              THEN FirstWithId(vector_chunks, id)
              ELSE FirstWithId(keyword_chunks, id)
     IN [c EXCEPT
           !.score = RatAdd(RrfSum(vector_chunks, id, 0),
                            RrfSum(keyword_chunks, id, 0)),
           !.vector_score =
               IF id \in SeqIds(vector_chunks)
               THEN OptionOr(c.vector_score, SomeScore(c.score))
               ELSE c.vector_score,
           !.keyword_score =
               IF id \notin SeqIds(vector_chunks)
               THEN OptionOr(c.keyword_score, SomeScore(c.score))
               ELSE c.keyword_score] :
        id \in SeqIds(vector_chunks) \cup SeqIds(keyword_chunks)}

\* The values of the HashMap `scores` once both loops have run, each chunk
\* with its fused score (retrieval.rs 344-379): the record is the clone made
\* at the first insert, with vector_score set at an insert by the first
\* loop and keyword_score set by every visit of the second.
MergeEntries(vector_chunks, keyword_chunks) ==
    {LET c == IF id \in SeqIds(vector_chunks)
              THEN FirstWithId(vector_chunks, id)
              ELSE FirstWithId(keyword_chunks, id)
     IN [c EXCEPT
           !.score = RatAdd(RrfSum(vector_chunks, id, 0),
                            RrfSum(keyword_chunks, id, 0)),
           !.vector_score =
               IF id \in SeqIds(vector_chunks)
               THEN OptionOr(c.vector_score, SomeScore(c.score))
               ELSE c.vector_score,
           !.keyword_score =
               IF id \in SeqIds(keyword_chunks)
               THEN OptionOr(LastWithId(keyword_chunks, id).keyword_score,
                             SomeScore(LastWithId(keyword_chunks, id).score))
               ELSE c.keyword_score] :
        id \in SeqIds(vector_chunks) \cup SeqIds(keyword_chunks)}

\* scores.into_iter(): the entries in any order, as the hasher leaves them.
HashOrders(S) ==
    {p \in [1..Cardinality(S) -> S] :
        \A i, j \in 1..Cardinality(S) : p[i] = p[j] => i = j}

\* Retriever::merge_results: every list it may return (retrieval.rs 337-385).
MergeResults(vector_chunks, keyword_chunks, top_k) ==
    {Truncate(SortByScore(p), top_k) :
        p \in HashOrders(MergeEntries(vector_chunks, keyword_chunks))}

\* Retriever::vector_search once the SELECT has run: top_k of the store,
\* then the threshold (retrieval.rs 57-69; enrich_chunks, 175-224, adds
\* metadata to every row and drops none).
VectorSearch(rows, top_k, similarity_threshold) ==
    FilterByThreshold(VectorStoreSearch(rows, top_k), similarity_threshold)

\* Retriever::keyword_search: `hits` are the rows the MATCH query selects,
\* in rank order; LIMIT top_k (retrieval.rs 79-103, 247-257).
KeywordSearch(hits, top_k) == Truncate(hits, top_k)

\* Retriever::hybrid_search: every list it may return (retrieval.rs 106-141).
HybridSearch(rows, hits, top_k, similarity_threshold) ==
    {FilterByThreshold(merged, similarity_threshold) :
        merged \in MergeResults(
                      VectorSearch(rows, top_k * 2, similarity_threshold),
                      KeywordSearch(hits, top_k * 2), top_k)}

\* ---- retrieval over the tables ----
\* The words of a query: a word stands for the text of the files that
\* split into that many chunks, and occurs in each of their chunks.
Queries == 1..MaxChunks

\* fts MATCH query
FtsMatch(query, content) == content[2] = query

RetrievalModes == {"vector", "keyword", "hybrid"}

\* Largest top_k of a request.
MaxTopK == 2

\* The requests of search_knowledge_base; qlen is the length of the vector
\* the embedding call returns for the query.
RetrievalRequests ==
    [kb_id : KbIds, query : Queries, qlen : EmbLens, top_k : 1..MaxTopK,
     retrieval_mode : RetrievalModes, similarity_threshold : {Rat(0, 1)}]

\* cosine_similarity of the query vector and a stored blob (db.rs 208-222):
\* 0 when the lengths differ; vectors are modelled by their length, and two
\* of equal length are taken to point the same way.
CosineSimilarity(qlen, blob) ==
    IF blob # VectorToBytes(qlen) THEN Rat(0, 1) ELSE Rat(1, 1)

\* The order in which chunk ids were handed out: documents one after the
\* other, the chunks of a document by index.
ChunkIdBefore(a, b) == a[1] < b[1] \/ (a[1] = b[1] /\ a[2] < b[2])

RECURSIVE InInsertionOrder(_)
InInsertionOrder(S) ==
    IF S = {} THEN <<>>
    ELSE LET m == CHOOSE x \in S : \A y \in S : x = y \/ ChunkIdBefore(x, y)
         IN <<m>> \o InInsertionOrder(S \ {m})

\* SELECT ... FROM vectors v JOIN chunks c ON v.chunk_id = c.id
\* WHERE v.kb_id = ?1, each row with its similarity (db.rs 97-126).
ScanVectors(kb, qlen) ==
    LET ids == InInsertionOrder({c \in DOMAIN vectors \cap DOMAIN chunks :
                                    vectors[c].kb_id = kb})
    IN [i \in 1..Len(ids) |->
          [id |-> ids[i], document_id |-> vectors[ids[i]].document_id,
           content |-> chunks[ids[i]].content,
           score |-> CosineSimilarity(qlen, vectors[ids[i]].vector),
           vector_score |-> SomeScore(CosineSimilarity(qlen, vectors[ids[i]].vector)),
           keyword_score |-> NoScore]]

RECURSIVE InRowidOrder(_)
InRowidOrder(S) ==
    IF S = {} THEN <<>>
    ELSE LET m == CHOOSE x \in S : \A y \in S : chunks[x].rowid <= chunks[y].rowid
         IN <<m>> \o InRowidOrder(S \ {m})

\* SELECT ... FROM chunks_fts fts JOIN chunks c ON fts.rowid = c.rowid
\* JOIN documents d ON c.document_id = d.id
\* WHERE c.kb_id = ?1 AND fts MATCH ?2 ORDER BY rank (retrieval.rs 247-257);
\* every row gets score 1.0 (272).
FtsHits(kb, query) ==
    LET ids == InRowidOrder({c \in DOMAIN chunks :
                   /\ chunks[c].rowid \in DOMAIN chunks_fts
                   /\ FtsMatch(query, chunks_fts[chunks[c].rowid])
                   /\ chunks[c].kb_id = kb
                   /\ chunks[c].document_id \in DOMAIN documents})
    IN [i \in 1..Len(ids) |->
          [id |-> ids[i], document_id |-> chunks[ids[i]].document_id,
           content |-> chunks[ids[i]].content, score |-> Rat(1, 1),
           vector_score |-> NoScore, keyword_score |-> SomeScore(Rat(1, 1))]]

\* Retriever::retrieve: every list of chunks the request may return
\* (retrieval.rs 21-39).
Retrieve(req) ==
    LET rows == ScanVectors(req.kb_id, req.qlen)
        hits == FtsHits(req.kb_id, req.query)
    IN CASE req.retrieval_mode = "vector" ->
              {VectorSearch(rows, req.top_k, req.similarity_threshold)}
         [] req.retrieval_mode = "keyword" -> {KeywordSearch(hits, req.top_k)}
         [] OTHER -> HybridSearch(rows, hits, req.top_k, req.similarity_threshold)

KbInit ==
    /\ foreign_keys = ForeignKeysEnforced
    /\ knowledge_bases = <<>>
    /\ documents = <<>>
    /\ chunks = <<>>
    /\ vectors = <<>>
    /\ chunks_fts = <<>>
    /\ db_mutex = "free"
    /\ imp = NoImport
    /\ next_kb = 1
    /\ next_doc = 1
    /\ sessions = <<>>
    /\ messages = <<>>
    /\ tasks = <<>>
    \* no chat request is made
    /\ provider = "openai"
    /\ sent = [lines |-> <<>>, nl |-> TRUE, crlf |-> FALSE]
    /\ wire = <<>>
    /\ buffer = <<>>
    /\ events = <<>>
    /\ spc = "idle"
    /\ sresult = "none"
    /\ call = NoCall
    /\ result = NoResult

\* create_knowledge_base (commands.rs 27-77).
CreateKnowledgeBase ==
    /\ result = NoResult
    /\ db_mutex = "free"
    /\ next_kb <= MaxKb
    /\ \E req \in EmbeddingRequests :
          knowledge_bases' = Insert(knowledge_bases, next_kb,
              [embedding_provider |-> req[1], embedding_model |-> req[2],
               embedding_dim |-> get_embedding_dimension(req[1], req[2]),
               document_count |-> 0])
    /\ next_kb' = next_kb + 1
    /\ UNCHANGED <<foreign_keys, documents, chunks, vectors, chunks_fts,
                   db_mutex, imp, next_doc, streamVars, sessVars, fnVars>>

\* import_document fails before it inserts anything: the base is not found
\* (commands.rs 156-176) or the file cannot be read (181).
ImportRejected ==
    /\ result = NoResult
    /\ db_mutex = "free"
    /\ \/ KbIds \ DOMAIN knowledge_bases # {}
       \/ [kind |-> "missing", n |-> 0] \in Files
    /\ UNCHANGED <<kbVars, streamVars, sessVars, fnVars>>

\* import_document up to its await of parse_document (commands.rs 151-218):
\* the mutex is taken and the Document row inserted.
ImportBegin ==
    /\ result = NoResult
    /\ db_mutex = "free"
    /\ next_doc <= MaxDocs
    /\ \E kb \in DOMAIN knowledge_bases, f \in Files :
          /\ f.kind # "missing"
          /\ documents' = Insert(documents, next_doc, NewDocument(kb))
          /\ imp' = [pc |-> "parsing", kb_id |-> kb, doc_id |-> next_doc, file |-> f]
    /\ db_mutex' = "import"
    /\ next_doc' = next_doc + 1
    /\ UNCHANGED <<foreign_keys, knowledge_bases, chunks, vectors,
                   chunks_fts, next_kb, streamVars, sessVars, fnVars>>

\* The function returns: the guard `db` is dropped.
ImportReturn ==
    /\ imp' = NoImport
    /\ db_mutex' = "free"

\* parse_document(f).unwrap_err().to_string() (commands.rs 218-224)
ParseError(f) == "Document parse error"

\* A parse failure that returns the error and leaves the row as it is.
ImportParseFailed_RowKept ==
    /\ result = NoResult
    /\ imp.pc = "parsing"
    /\ imp.file.kind = "unsupported"
    /\ ImportReturn
    /\ result' = [of |-> "import_document", ok |-> FALSE,
                  error |-> ParseError(imp.file), doc_id |-> imp.doc_id]
    /\ UNCHANGED <<foreign_keys, knowledge_bases, documents, chunks, vectors,
                   chunks_fts, next_kb, next_doc, streamVars, sessVars, call>>

\* parse_document fails: status = 'error' with the message, and the error is
\* returned (commands.rs 218-228).
ImportParseFailed ==
    /\ result = NoResult
    /\ imp.pc = "parsing"
    /\ imp.file.kind = "unsupported"
    /\ documents' = SetStatus(documents, imp.doc_id, "error", ParseError(imp.file))
    /\ ImportReturn
    /\ result' = [of |-> "import_document", ok |-> FALSE,
                  error |-> ParseError(imp.file), doc_id |-> imp.doc_id]
    /\ UNCHANGED <<foreign_keys, knowledge_bases, chunks, vectors,
                   chunks_fts, next_kb, next_doc, streamVars, sessVars, call>>

\* The tail of import_document once the embeddings are there: the vectors,
\* status = 'completed', the document count, Ok (commands.rs 283-322).
ImportFinish(embeddings) ==
    LET n == imp.file.n
        rows == ZipVectors(imp.doc_id, n, embeddings)
    IN /\ vectors' = InsertVectors(vectors, imp.kb_id, rows, Len(rows))
       /\ documents' = Complete(documents, imp.doc_id, n)
       /\ knowledge_bases' = AddDocumentCount(knowledge_bases, imp.kb_id, 1)
       /\ ImportReturn

\* parse_document succeeds: preview, split_text, the chunk rows and their
\* postings (commands.rs 230-273).  With no chunk, generate_embeddings
\* returns Ok(vec![]) at once (embedding.rs 35-37) and the call runs to its
\* end; otherwise it awaits the embedding API.
ImportParsed ==
    /\ result = NoResult
    /\ imp.pc = "parsing"
    /\ imp.file.kind = "text"
    /\ LET n == imp.file.n
           st == InsertChunks([chunks |-> chunks, fts |-> chunks_fts],
                              imp.doc_id, imp.kb_id, SplitText(imp.file), 0, n)
       IN /\ chunks' = st.chunks
          /\ chunks_fts' = st.fts
          /\ IF n = 0
             THEN ImportFinish(<<>>)
             ELSE /\ imp' = [imp EXCEPT !.pc = "embedding"]
                  /\ UNCHANGED <<documents, vectors, knowledge_bases, db_mutex>>
    /\ UNCHANGED <<foreign_keys, next_kb, next_doc, streamVars, sessVars, fnVars>>

\* generate_embeddings returns Err (commands.rs 276-281): the `?` returns.
ImportEmbeddingFailed ==
    /\ result = NoResult
    /\ imp.pc = "embedding"
    /\ ImportReturn
    /\ UNCHANGED <<foreign_keys, knowledge_bases, documents, chunks,
                   vectors, chunks_fts, next_kb, next_doc, streamVars, sessVars, fnVars>>

\* generate_embeddings returns Ok: vectors, status, count (commands.rs 283-322).
ImportEmbedded ==
    /\ result = NoResult
    /\ imp.pc = "embedding"
    /\ \E embeddings \in EmbeddingResponses : ImportFinish(embeddings)
    /\ UNCHANGED <<foreign_keys, chunks, chunks_fts, next_kb, next_doc, streamVars, sessVars, fnVars>>

\* A delete_document that leaves the keyword index alone.
DeleteDocumentCall_KeepsPostings(doc, kb) ==
    LET mine == ChunksOfDocs(chunks, {doc})
        vec1 == Delete(vectors, {c \in DOMAIN vectors :
                    vectors[c].kb_id = kb /\ vectors[c].document_id = doc})
    IN /\ chunks_fts' = chunks_fts
       /\ documents' = Delete(documents, {doc})
       /\ chunks' = CascadeChunks(chunks, mine)
       /\ vectors' = CascadeVectors(vec1, mine)
       /\ knowledge_bases' = AddDocumentCount(knowledge_bases, kb, -1)

\* What delete_document(doc, kb) writes (commands.rs 382-403).
DeleteDocumentCall(doc, kb) ==
    LET mine == ChunksOfDocs(chunks, {doc})
        \* VectorStore::delete_document_vectors (db.rs 141-156)
        vec1 == Delete(vectors, {c \in DOMAIN vectors :
                    vectors[c].kb_id = kb /\ vectors[c].document_id = doc})
    IN /\ chunks_fts' = Delete(chunks_fts, {chunks[c].rowid : c \in mine})
       /\ documents' = Delete(documents, {doc})
       /\ chunks' = CascadeChunks(chunks, mine)
       /\ vectors' = CascadeVectors(vec1, mine)
       /\ knowledge_bases' = AddDocumentCount(knowledge_bases, kb, -1)

\* delete_document(doc_id, kb_id) (commands.rs 373-407).
DeleteDocument ==
    /\ result = NoResult
    /\ db_mutex = "free"
    /\ \E doc \in DOMAIN documents, kb \in KbIds :
          /\ DeleteDocumentCall(doc, kb)
          /\ result' = [of |-> "delete_document", ok |-> TRUE, doc_id |-> doc,
                        kb_id |-> kb, document |-> documents[doc]]
    /\ UNCHANGED <<foreign_keys, db_mutex, imp, next_kb, next_doc, streamVars, sessVars, call>>

\* What delete_knowledge_base(kb) writes (commands.rs 129-136).
DeleteKnowledgeBaseCall(kb) ==
    LET docsGone == {d \in DOMAIN documents : documents[d].kb_id = kb}
        chunksGone == {c \in DOMAIN chunks : chunks[c].kb_id = kb}
                      \cup ChunksOfDocs(chunks, docsGone)
        vec1 == CascadeVectors(vectors, chunksGone)
    IN /\ knowledge_bases' = Delete(knowledge_bases, {kb})
       /\ documents' = IF foreign_keys THEN Delete(documents, docsGone) ELSE documents
       /\ chunks' = CascadeChunks(chunks, chunksGone)
       \* VectorStore::drop_kb_table (db.rs 159-170)
       /\ vectors' = Delete(vec1, {c \in DOMAIN vec1 : vec1[c].kb_id = kb})

\* delete_knowledge_base(kb_id) (commands.rs 120-140).
DeleteKnowledgeBase ==
    /\ result = NoResult
    /\ db_mutex = "free"
    /\ \E kb \in KbIds : DeleteKnowledgeBaseCall(kb)
    /\ UNCHANGED <<foreign_keys, chunks_fts, db_mutex, imp, next_kb,
                   next_doc, streamVars, sessVars, fnVars>>

\* search_knowledge_base (commands.rs 410-418): it takes no lock and reads
\* the tables as they are.  In vector and hybrid mode the embedding of the
\* query may fail, and the call returns the error.
SearchKnowledgeBase ==
    /\ result = NoResult
    /\ \E req \in RetrievalRequests :
          \/ \E found \in Retrieve(req) :
                result' = [of |-> "search_knowledge_base", ok |-> TRUE,
                           query |-> req.query, chunks |-> found,
                           total_chunks |-> Len(found)]
          \/ /\ req.retrieval_mode # "keyword"
             /\ result' = [of |-> "search_knowledge_base", ok |-> FALSE,
                           query |-> req.query, chunks |-> <<>>,
                           total_chunks |-> 0]
    /\ UNCHANGED <<kbVars, streamVars, sessVars, call>>

\* The caller takes the value returned to it.
ResultTaken ==
    /\ result # NoResult
    /\ result' = NoResult
    /\ UNCHANGED <<kbVars, streamVars, sessVars, call>>

KbNext ==
    \/ CreateKnowledgeBase
    \/ ImportRejected
    \/ ImportBegin
    \/ ImportParseFailed
    \/ ImportParsed
    \/ ImportEmbeddingFailed
    \/ ImportEmbedded
    \/ DeleteDocument
    \/ DeleteKnowledgeBase
    \/ SearchKnowledgeBase
    \/ ResultTaken

KbSpec == KbInit /\ [][KbNext]_vars

(***************************************************************************)
(* Properties of the knowledge base.                                       *)
(***************************************************************************)
\* No command is in progress.
Quiescent == db_mutex = "free"

DocsOfKb(kb) == {d \in DOMAIN documents : documents[d].kb_id = kb}

DocsWithStatus(st) == {d \in DOMAIN documents : documents[d].status = st}

\* C5: a Document row is created with status=processing; its status changes
\* at most once, from processing to completed or error, and a completed or
\* error document never changes status again.
C5_StatusChangesOnce ==
    [][\A d \in DOMAIN documents' :
          IF d \in DOMAIN documents
          THEN documents'[d].status # documents[d].status
                  => /\ documents[d].status = "processing"
                     /\ documents'[d].status \in {"completed", "error"}
          ELSE documents'[d].status = "processing"]_vars

\* C5 witness: one document has become completed and another error, and
\* both are at rest.
C5_Witness ==
    /\ Quiescent
    /\ DocsWithStatus("completed") # {}
    /\ DocsWithStatus("error") # {}

\* C6: every failure of import_document after the Document row was
\* inserted leaves the Document in status=error with an error message; no
\* call returns while its Document is still in status=processing.
C6_FailureSetsError ==
    Quiescent =>
        \A d \in DOMAIN documents :
            \/ documents[d].status = "completed"
            \/ documents[d].status = "error" /\ documents[d].error_message # "none"

\* C7: in every quiescent state each base's document_count equals the
\* number of Document rows of that base, whatever their status.
C7_DocumentCount ==
    Quiescent =>
        \A kb \in DOMAIN knowledge_bases :
            knowledge_bases[kb].document_count = Cardinality(DocsOfKb(kb))

\* C8: for every Document in status=completed, chunk_count equals the
\* number of its Chunk rows, and their chunk_index values are exactly
\* 0 .. chunk_count-1, without gap or duplicate.
C8_ChunkIndicesDense ==
    \A d \in DocsWithStatus("completed") :
        LET mine == ChunksOfDocs(chunks, {d})
            idx == {chunks[c].chunk_index : c \in mine}
        IN /\ documents[d].chunk_count = Cardinality(mine)
           /\ idx = 0..(documents[d].chunk_count - 1)
           /\ Cardinality(idx) = Cardinality(mine)

\* C8 witness: two completed documents, one of them with several chunks.
C8_Witness ==
    /\ Quiescent
    /\ Cardinality(DocsWithStatus("completed")) >= 2
    /\ \E d \in DocsWithStatus("completed") :
          documents[d].chunk_count >= 2 /\ ChunksOfDocs(chunks, {d}) # {}

\* C9: after any sequence of finished operations a Vector row exists for a
\* chunk id if and only if a Chunk row with that id exists.
C9_VectorIffChunk == Quiescent => DOMAIN vectors = DOMAIN chunks

\* C10: a vector whose length differs from the base's embedding_dim is
\* rejected, so every stored vector of a base has blob length
\* 4 x embedding_dim.
C10_VectorDimension ==
    \A c \in DOMAIN vectors :
        vectors[c].kb_id \in DOMAIN knowledge_bases
            => vectors[c].vector = 4 * knowledge_bases[vectors[c].kb_id].embedding_dim

\* A search_knowledge_base call has returned a list of chunks.
Retrieved == result.of = "search_knowledge_base" /\ result.ok

\* C11: no retrieval result, in vector, keyword or hybrid mode, contains a
\* chunk whose Document is not in status=completed (chunks of a failed
\* ingestion, or of one still in progress, are never returned).
C11_OnlyCompletedRetrieved ==
    Retrieved =>
        \A i \in 1..Len(result.chunks) :
            /\ result.chunks[i].document_id \in DOMAIN documents
            /\ documents[result.chunks[i].document_id].status = "completed"

\* C12: after delete_document(doc_id, kb_id) has returned Ok for a completed
\* document of base kb_id, no Chunk row, no Vector row and no keyword
\* posting of that document remains, and the base's document_count is
\* lower by exactly 1.
C12_DeleteDocumentCascade ==
    [][\A doc \in DOMAIN documents :
          LET kb == documents[doc].kb_id
          IN (/\ DeleteDocument
              /\ DeleteDocumentCall(doc, kb)
              /\ documents[doc].status = "completed"
              /\ kb \in DOMAIN knowledge_bases)
             => /\ doc \notin DOMAIN documents'
                /\ ChunksOfDocs(chunks', {doc}) = {}
                /\ \A c \in DOMAIN vectors' : vectors'[c].document_id # doc
                /\ \A c \in ChunksOfDocs(chunks, {doc}) :
                      chunks[c].rowid \notin DOMAIN chunks_fts'
                /\ knowledge_bases'[kb].document_count
                      = knowledge_bases[kb].document_count - 1]_vars

\* C12 witness: delete_document has returned for a completed document with
\* several chunks, given its own base, while another document with chunks
\* stays.
C12_Witness ==
    /\ result.of = "delete_document"
    /\ result.document.status = "completed"
    /\ result.document.chunk_count >= 2
    /\ result.kb_id = result.document.kb_id
    /\ result.kb_id \in DOMAIN knowledge_bases
    /\ chunks # <<>>
    /\ ChunksOfDocs(chunks, {result.doc_id}) = {}

\* C13: after any sequence of import_document, delete_document and
\* delete_knowledge_base calls the keyword index holds exactly one posting
\* for each existing chunk, at that chunk's row and with its content, and
\* none for a chunk that no longer exists; so a keyword search returns no
\* chunk whose content does not match the query.
C13_KeywordIndexInSync ==
    Quiescent =>
        /\ \A c \in DOMAIN chunks :
              /\ chunks[c].rowid \in DOMAIN chunks_fts
              /\ chunks_fts[chunks[c].rowid] = chunks[c].content
        /\ \A r \in DOMAIN chunks_fts : \E c \in DOMAIN chunks : chunks[c].rowid = r
        /\ \A kb \in KbIds, q \in Queries :
              LET hits == FtsHits(kb, q)
              IN \A i \in 1..Len(hits) : FtsMatch(q, hits[i].content)

\* C14: after delete_knowledge_base(kb_id) has returned Ok, no Document,
\* Chunk, Vector or keyword posting that belonged to that base remains, and
\* no row of any other base has changed.
C14_DeleteKnowledgeBaseCascade ==
    [][\A kb \in DOMAIN knowledge_bases :
          (DeleteKnowledgeBase /\ DeleteKnowledgeBaseCall(kb))
          => /\ kb \notin DOMAIN knowledge_bases'
             /\ \A d \in DOMAIN documents' : documents'[d].kb_id # kb
             /\ \A c \in DOMAIN chunks' : chunks'[c].kb_id # kb
             /\ \A c \in DOMAIN vectors' : vectors'[c].kb_id # kb
             /\ \A c \in DOMAIN chunks :
                   chunks[c].kb_id = kb => chunks[c].rowid \notin DOMAIN chunks_fts'
             /\ \A k \in DOMAIN knowledge_bases \ {kb} :
                   knowledge_bases'[k] = knowledge_bases[k]
             /\ \A d \in DOMAIN documents :
                   documents[d].kb_id # kb
                       => d \in DOMAIN documents' /\ documents'[d] = documents[d]
             /\ \A c \in DOMAIN chunks :
                   chunks[c].kb_id # kb
                       => c \in DOMAIN chunks' /\ chunks'[c] = chunks[c]
             /\ \A c \in DOMAIN vectors :
                   vectors[c].kb_id # kb
                       => c \in DOMAIN vectors' /\ vectors'[c] = vectors[c]]_vars

\* C20: the metadata-store mutex is never held while an embedding request
\* is in flight: an operation that calls the embedding client has released
\* it before it awaits the call.
C20_MutexFreeWhileEmbedding == imp.pc = "embedding" => db_mutex = "free"

(***************************************************************************)
(* The ranking functions on their own: VectorStore::search, merge_results   *)
(* and hybrid_search applied to arguments drawn from bounded sets.          *)
(***************************************************************************)
\* Number of chunks a ranking function is given.
MaxIds == 3

\* Chunk ids; their order stands for the lexicographic order of the ids.
Ids == 1..MaxIds

\* Cosine similarities of stored vectors to the query vector.
CosScores == {Rat(1, 100), Rat(1, 2), Rat(1, 1)}

Thresholds == {Rat(0, 1), Rat(1, 50), Rat(1, 2)}

\* The lists of at most MaxIds rows with pairwise different ids, each row
\* with its fields drawn from Fields.
RowLists(Fields) ==
    UNION {{l \in [1..n -> [id : Ids] \X Fields] :
               \A i, j \in 1..n : l[i][1].id = l[j][1].id => i = j} :
           n \in 0..MaxIds}

\* The rows of the vectors table in insertion order, each with the base it
\* belongs to and its similarity to the query.
VectorTables ==
    {[i \in 1..Len(l) |->
         [id |-> l[i][1].id, kb_id |-> l[i][2].kb_id, score |-> l[i][2].score]] :
        l \in RowLists([kb_id : KbIds, score : CosScores])}

\* The rows of one base in scan order, each with its similarity, as
\* enrich_chunks returns them (retrieval.rs 215-217).
ScoredRows ==
    {[i \in 1..Len(l) |->
         [id |-> l[i][1].id, score |-> l[i][2].score,
          vector_score |-> SomeScore(l[i][2].score), keyword_score |-> NoScore]] :
        l \in RowLists([score : CosScores])}

\* Keyword hits in rank order; every hit has score 1.0 (retrieval.rs
\* 272-274).
Rankings ==
    {[i \in 1..Len(l) |->
         [id |-> l[i][1].id, score |-> Rat(1, 1),
          vector_score |-> NoScore, keyword_score |-> SomeScore(Rat(1, 1))]] :
        l \in RowLists([score : {Rat(1, 1)}])}

\* Vector results in rank order, all with the same similarity.
VectorRankings ==
    {[i \in 1..Len(l) |->
         [id |-> l[i][1].id, score |-> l[i][2].score,
          vector_score |-> SomeScore(l[i][2].score), keyword_score |-> NoScore]] :
        l \in RowLists([score : {Rat(1, 2)}])}

\* The chunk ids of a ranking, in its order.
IdsInOrder(list) == [i \in 1..Len(list) |-> list[i].id]

\* WHERE v.kb_id = ?1 (db.rs 100-103)
RECURSIVE RowsOfKb(_, _)
RowsOfKb(table, kb) ==
    IF table = <<>> THEN <<>>
    ELSE (IF Head(table).kb_id = kb THEN <<Head(table)>> ELSE <<>>)
         \o RowsOfKb(Tail(table), kb)

SearchInit ==
    /\ call \in [fn : {"search"}, table : VectorTables, kb_id : KbIds,
                 top_k : 1..MaxTopK]
    /\ result = NoResult
    \* no chat request is made and the knowledge base is not used
    /\ provider = "openai"
    /\ sent = [lines |-> <<>>, nl |-> TRUE, crlf |-> FALSE]
    /\ wire = <<>>
    /\ buffer = <<>>
    /\ events = <<>>
    /\ spc = "idle"
    /\ sresult = "none"
    /\ foreign_keys = ForeignKeysEnforced
    /\ knowledge_bases = <<>>
    /\ documents = <<>>
    /\ chunks = <<>>
    /\ vectors = <<>>
    /\ chunks_fts = <<>>
    /\ db_mutex = "free"
    /\ imp = NoImport
    /\ next_kb = 1
    /\ next_doc = 1
    /\ sessions = <<>>
    /\ messages = <<>>
    /\ tasks = <<>>

\* VectorStore::search(kb_id, query_vector, top_k) (db.rs 86-138).
Search ==
    /\ call.fn = "search"
    /\ result = NoResult
    /\ result' = [of |-> "search",
                  rows |-> VectorStoreSearch(RowsOfKb(call.table, call.kb_id),
                                             call.top_k)]
    /\ UNCHANGED <<call, kbVars, streamVars, sessVars>>

SearchSpec == SearchInit /\ [][Search]_vars

MergeInit ==
    /\ call \in [fn : {"merge_results"}, vector_chunks : VectorRankings,
                 keyword_chunks : Rankings, top_k : 1..MaxTopK]
    /\ result = NoResult
    \* no chat request is made and the knowledge base is not used
    /\ provider = "openai"
    /\ sent = [lines |-> <<>>, nl |-> TRUE, crlf |-> FALSE]
    /\ wire = <<>>
    /\ buffer = <<>>
    /\ events = <<>>
    /\ spc = "idle"
    /\ sresult = "none"
    /\ foreign_keys = ForeignKeysEnforced
    /\ knowledge_bases = <<>>
    /\ documents = <<>>
    /\ chunks = <<>>
    /\ vectors = <<>>
    /\ chunks_fts = <<>>
    /\ db_mutex = "free"
    /\ imp = NoImport
    /\ next_kb = 1
    /\ next_doc = 1
    /\ sessions = <<>>
    /\ messages = <<>>
    /\ tasks = <<>>

\* Retriever::merge_results(vector_chunks, keyword_chunks, top_k)
\* (retrieval.rs 337-385).
Merge ==
    /\ call.fn = "merge_results"
    /\ result = NoResult
    /\ \E merged \in MergeResults(call.vector_chunks, call.keyword_chunks,
                                  call.top_k) :
          result' = [of |-> "merge_results", chunks |-> merged]
    /\ UNCHANGED <<call, kbVars, streamVars, sessVars>>

MergeSpec == MergeInit /\ [][Merge]_vars

HybridInit ==
    /\ call \in [fn : {"hybrid_search"}, rows : ScoredRows, hits : Rankings,
                 top_k : 1..MaxTopK, similarity_threshold : Thresholds]
    /\ result = NoResult
    \* no chat request is made and the knowledge base is not used
    /\ provider = "openai"
    /\ sent = [lines |-> <<>>, nl |-> TRUE, crlf |-> FALSE]
    /\ wire = <<>>
    /\ buffer = <<>>
    /\ events = <<>>
    /\ spc = "idle"
    /\ sresult = "none"
    /\ foreign_keys = ForeignKeysEnforced
    /\ knowledge_bases = <<>>
    /\ documents = <<>>
    /\ chunks = <<>>
    /\ vectors = <<>>
    /\ chunks_fts = <<>>
    /\ db_mutex = "free"
    /\ imp = NoImport
    /\ next_kb = 1
    /\ next_doc = 1
    /\ sessions = <<>>
    /\ messages = <<>>
    /\ tasks = <<>>

\* Retriever::hybrid_search (retrieval.rs 106-141) over the rows the vector
\* scan and the keyword query select.
Hybrid ==
    /\ call.fn = "hybrid_search"
    /\ result = NoResult
    /\ \E found \in HybridSearch(call.rows, call.hits, call.top_k,
                                 call.similarity_threshold) :
          result' = [of |-> "hybrid_search", chunks |-> found]
    /\ UNCHANGED <<call, kbVars, streamVars, sessVars>>

HybridSpec == HybridInit /\ [][Hybrid]_vars

\* C15: in hybrid mode the score of every returned chunk is the sum over the
\* two source rankings of 1/(60 + rank), the source rankings being the top
\* 2 x top_k chunks by cosine similarity and the top 2 x top_k keyword
\* matches (rank zero-based, a list without the chunk contributing 0); the
\* result is the top_k chunks by that fused score, and similarity_threshold
\* is applied to the fused score only.
C15_HybridScoreIsRrf ==
    result.of = "hybrid_search" =>
        LET byCosine == VectorStoreSearch(call.rows, 2 * call.top_k)
            byKeyword == Truncate(call.hits, 2 * call.top_k)
            fused(id) == RatAdd(RrfSum(byCosine, id, 0), RrfSum(byKeyword, id, 0))
            candidates == SeqIds(byCosine) \cup SeqIds(byKeyword)
            passing == {id \in candidates :
                           RatGeq(fused(id), call.similarity_threshold)}
            out == result.chunks
            returned == SeqIds(out)
        IN  /\ \A i \in 1..Len(out) : RatEq(out[i].score, fused(out[i].id))
            /\ \A i, j \in 1..Len(out) : out[i].id = out[j].id => i = j
            /\ \A i, j \in 1..Len(out) :
                   i < j => RatGeq(out[i].score, out[j].score)
            /\ returned \subseteq passing
            /\ Len(out) <= call.top_k
            /\ \A id \in passing \ returned :
                   /\ Len(out) = call.top_k
                   /\ \A r \in returned : RatGeq(fused(r), fused(id))

\* C16: fused results are sorted descending by score, and chunks with equal
\* fused score are in chunk-id order, so vector ranking [A,B] with keyword
\* ranking [B,A] always returns [A,B].
C16_FusedTiesByChunkId ==
    result.of = "merge_results" =>
        \A i, j \in 1..Len(result.chunks) :
            i < j =>
                \/ RatGt(result.chunks[i].score, result.chunks[j].score)
                \/ /\ RatEq(result.chunks[i].score, result.chunks[j].score)
                   /\ result.chunks[i].id < result.chunks[j].id

\* C17: fusing two identical rankings (same chunks, same order, no chunk
\* repeated) returns the chunks in the input order, and the first chunk is
\* the one the keyword ranking alone puts first.
C17_IdenticalRankingsKeepOrder ==
    (/\ result.of = "merge_results"
     /\ IdsInOrder(call.vector_chunks) = IdsInOrder(call.keyword_chunks)) =>
        /\ Len(result.chunks) = Len(Truncate(call.keyword_chunks, call.top_k))
        /\ \A i \in 1..Len(result.chunks) :
               result.chunks[i].id = call.keyword_chunks[i].id
        /\ \A alone \in MergeResults(<<>>, call.keyword_chunks, call.top_k) :
               /\ Len(alone) = Len(result.chunks)
               /\ alone # <<>> => alone[1].id = result.chunks[1].id

\* Two identical rankings of three chunks were fused and two were asked for.
C17_Witness ==
    /\ result.of = "merge_results"
    /\ IdsInOrder(call.vector_chunks) = IdsInOrder(call.keyword_chunks)
    /\ Len(call.keyword_chunks) = MaxIds
    /\ call.top_k = 2
    /\ Len(result.chunks) = 2
    /\ call.keyword_chunks[1].id > call.keyword_chunks[2].id

\* C18: VectorStore.search(kb_id, q, top_k) scans every vector of kb_id and
\* only those, returns at most top_k entries sorted by descending score with
\* equal scores in insertion order, and truncates after sorting: no omitted
\* vector of the base scores strictly higher than a returned one.
C18_SearchTopKStable ==
    result.of = "search" =>
        LET out == result.rows
            ofKb == {i \in 1..Len(call.table) :
                        call.table[i].kb_id = call.kb_id}
            pos(row) == CHOOSE i \in 1..Len(call.table) : call.table[i] = row
        IN  /\ \A n \in 1..Len(out) :
                   \E i \in ofKb : call.table[i] = out[n]
            /\ \A n, m \in 1..Len(out) : out[n].id = out[m].id => n = m
            /\ Len(out) = (IF Cardinality(ofKb) < call.top_k
                           THEN Cardinality(ofKb) ELSE call.top_k)
            /\ \A n, m \in 1..Len(out) :
                   n < m =>
                       \/ RatGt(out[n].score, out[m].score)
                       \/ /\ RatEq(out[n].score, out[m].score)
                          /\ pos(out[n]) < pos(out[m])
            /\ \A i \in ofKb :
                   (\A n \in 1..Len(out) : out[n] # call.table[i]) =>
                       \A n \in 1..Len(out) :
                           RatGeq(out[n].score, call.table[i].score)

\* A search of a base whose first two vectors score the same and whose
\* third scores higher returned the third, then the first, and left out
\* the second.
C18_Witness ==
    /\ result.of = "search"
    /\ Len(call.table) = MaxIds
    /\ \A i \in 1..MaxIds : call.table[i].kb_id = call.kb_id
    /\ RatEq(call.table[1].score, call.table[2].score)
    /\ call.table[1].id > call.table[2].id
    /\ RatGt(call.table[3].score, call.table[1].score)
    /\ call.top_k = 2
    /\ result.rows = <<call.table[3], call.table[1]>>

(***************************************************************************)
(* split_text (document.rs 241-314) on texts drawn from a bounded set.      *)
(* A text is a sequence of one-byte characters.                             *)
(***************************************************************************)
MaxTextLen == 6

MaxChunkSize == 2

\* A letter, the sentence separator and the newline.
Chars == {"a", ".", "\n"}

SplitTexts == UNION {[1..n -> Chars] : n \in 0..MaxTextLen}

\* &s[from..] with `from` a zero-based byte offset
StrFrom(str, from) == SubSeq(str, from + 1, Len(str))

\* text.split("\n\n"): `cur` is the piece read so far (document.rs 246).
RECURSIVE SplitParagraphs(_, _)
SplitParagraphs(text, cur) ==
    IF text = <<>> THEN <<cur>>
    ELSE IF Len(text) >= 2 /\ text[1] = "\n" /\ text[2] = "\n"
         THEN <<cur>> \o SplitParagraphs(StrFrom(text, 2), <<>>)
         ELSE SplitParagraphs(Tail(text), Append(cur, Head(text)))

\* chunk.split('.') (document.rs 277)
RECURSIVE SplitSentences(_, _)
SplitSentences(chunk, cur) ==
    IF chunk = <<>> THEN <<cur>>
    ELSE IF Head(chunk) = "."
         THEN <<cur>> \o SplitSentences(Tail(chunk), <<>>)
         ELSE SplitSentences(Tail(chunk), Append(cur, Head(chunk)))

\* The paragraph loop and the push after it (document.rs 249-270): `acc` is
\* the vector `chunks`.
RECURSIVE ByParagraphs(_, _, _, _, _)
ByParagraphs(paragraphs, acc, current_chunk, chunk_size, chunk_overlap) ==
    IF paragraphs = <<>>
    THEN IF current_chunk # <<>> THEN Append(acc, current_chunk) ELSE acc
    ELSE LET para == Head(paragraphs)
             full == /\ Len(current_chunk) + Len(para) > chunk_size
                     /\ current_chunk # <<>>
             overlap_start == IF Len(current_chunk) > chunk_overlap
                              THEN Len(current_chunk) - chunk_overlap
                              ELSE 0
             kept == IF full THEN StrFrom(current_chunk, overlap_start)
                     ELSE current_chunk
             joined == IF kept # <<>> THEN kept \o <<"\n", "\n">> ELSE kept
         IN ByParagraphs(Tail(paragraphs),
                         IF full THEN Append(acc, current_chunk) ELSE acc,
                         joined \o para, chunk_size, chunk_overlap)

\* The sentence loop and the push after it (document.rs 280-291): `acc` is
\* what the loop has pushed to final_chunks.
RECURSIVE BySentences(_, _, _, _)
BySentences(sentences, acc, sentence_chunk, chunk_size) ==
    IF sentences = <<>>
    THEN IF sentence_chunk # <<>> THEN Append(acc, sentence_chunk) ELSE acc
    ELSE LET sentence == Head(sentences)
             full == /\ Len(sentence_chunk) + Len(sentence) > chunk_size
                     /\ sentence_chunk # <<>>
         IN BySentences(Tail(sentences),
                        IF full THEN Append(acc, sentence_chunk) ELSE acc,
                        (IF full THEN <<>> ELSE sentence_chunk)
                            \o sentence \o <<".">>,
                        chunk_size)

\* for i in (0..chunk.len()).step_by(chunk_size - chunk_overlap)
\* (document.rs 301-307)
RECURSIVE HardSplit(_, _, _, _)
HardSplit(chunk, i, chunk_size, chunk_overlap) ==
    IF i >= Len(chunk) THEN <<>>
    ELSE LET end == IF i + chunk_size < Len(chunk) THEN i + chunk_size
                    ELSE Len(chunk)
         IN <<SubSeq(chunk, i + 1, end)>>
            \o (IF end = Len(chunk) THEN <<>>
                ELSE HardSplit(chunk, i + (chunk_size - chunk_overlap),
                               chunk_size, chunk_overlap))

\* The second pass: a chunk longer than chunk_size * 2 is split by
\* sentences (document.rs 273-295).
RECURSIVE SentencePass(_, _)
SentencePass(list, chunk_size) ==
    IF list = <<>> THEN <<>>
    ELSE (IF Len(Head(list)) > chunk_size * 2
          THEN BySentences(SplitSentences(Head(list), <<>>), <<>>, <<>>,
                           chunk_size)
          ELSE <<Head(list)>>)
         \o SentencePass(Tail(list), chunk_size)

\* The third pass: a chunk still longer than chunk_size * 2 is cut into
\* windows (document.rs 298-311).
RECURSIVE HardPass(_, _, _)
HardPass(list, chunk_size, chunk_overlap) ==
    IF list = <<>> THEN <<>>
    ELSE (IF Len(Head(list)) > chunk_size * 2
          THEN HardSplit(Head(list), 0, chunk_size, chunk_overlap)
          ELSE <<Head(list)>>)
         \o HardPass(Tail(list), chunk_size, chunk_overlap)

\* split_text without its third pass.
split_text_NoHardSplit(text, chunk_size, chunk_overlap) ==
    SentencePass(ByParagraphs(SplitParagraphs(text, <<>>), <<>>, <<>>,
                              chunk_size, chunk_overlap),
                 chunk_size)

\* split_text(text, chunk_size, chunk_overlap) (document.rs 241-314)
split_text(text, chunk_size, chunk_overlap) ==
    HardPass(SentencePass(ByParagraphs(SplitParagraphs(text, <<>>), <<>>, <<>>,
                                       chunk_size, chunk_overlap),
                          chunk_size),
             chunk_size, chunk_overlap)

SplitInit ==
    /\ call \in {c \in [fn : {"split_text"}, text : SplitTexts,
                        chunk_size : 1..MaxChunkSize,
                        chunk_overlap : 0..(MaxChunkSize - 1)] :
                    c.chunk_overlap < c.chunk_size}
    /\ result = NoResult
    \* no chat request is made and the knowledge base is not used
    /\ provider = "openai"
    /\ sent = [lines |-> <<>>, nl |-> TRUE, crlf |-> FALSE]
    /\ wire = <<>>
    /\ buffer = <<>>
    /\ events = <<>>
    /\ spc = "idle"
    /\ sresult = "none"
    /\ foreign_keys = ForeignKeysEnforced
    /\ knowledge_bases = <<>>
    /\ documents = <<>>
    /\ chunks = <<>>
    /\ vectors = <<>>
    /\ chunks_fts = <<>>
    /\ db_mutex = "free"
    /\ imp = NoImport
    /\ next_kb = 1
    /\ next_doc = 1
    /\ sessions = <<>>
    /\ messages = <<>>
    /\ tasks = <<>>

Split ==
    /\ call.fn = "split_text"
    /\ result = NoResult
    /\ result' = [of |-> "split_text",
                  chunks |-> split_text(call.text, call.chunk_size,
                                        call.chunk_overlap)]
    /\ UNCHANGED <<call, kbVars, streamVars, sessVars>>

SplitSpec == SplitInit /\ [][Split]_vars

\* A text without its newlines: the text up to paragraph separators.
RECURSIVE WithoutNewlines(_)
WithoutNewlines(str) ==
    IF str = <<>> THEN <<>>
    ELSE (IF Head(str) = "\n" THEN <<>> ELSE <<Head(str)>>)
         \o WithoutNewlines(Tail(str))

\* The texts obtained by concatenating the chunks of `list` after removing
\* from each a prefix of at most chunk_overlap characters that repeats the
\* end of its predecessor `prev`.
RECURSIVE Rejoined(_, _, _)
Rejoined(prev, list, chunk_overlap) ==
    IF list = <<>> THEN {<<>>}
    ELSE LET chunk == Head(list)
             carried == {k \in 0..chunk_overlap :
                            /\ k <= Len(prev)
                            /\ k <= Len(chunk)
                            /\ SubSeq(chunk, 1, k) = StrFrom(prev, Len(prev) - k)}
         IN UNION {{StrFrom(chunk, k) \o rest :
                       rest \in Rejoined(chunk, Tail(list), chunk_overlap)} :
                   k \in carried}

\* C19: for every text and chunk_overlap < chunk_size, split_text returns
\* non-empty chunks (none for the empty text) which, concatenated in order
\* with the overlap carried from each predecessor removed, give back the
\* text up to paragraph separators: no character is added or lost, also
\* when the sentence and the hard split are taken.
C19_SplitTextRoundTrip ==
    result.of = "split_text" =>
        /\ \A i \in 1..Len(result.chunks) : result.chunks[i] # <<>>
        /\ call.text = <<>> => result.chunks = <<>>
        /\ \E joined \in Rejoined(<<>>, result.chunks, call.chunk_overlap) :
               WithoutNewlines(joined) = WithoutNewlines(call.text)

\* C30: for every text and chunk_size > 0 with chunk_overlap < chunk_size,
\* every chunk split_text returns is at most 2 x chunk_size long, whichever
\* of the three stages produced it.
C30_ChunkLengthBounded ==
    result.of = "split_text" =>
        \A i \in 1..Len(result.chunks) :
            Len(result.chunks[i]) <= 2 * call.chunk_size

\* A text of one paragraph and one sentence, longer than 2 x chunk_size,
\* was split: the sentence stage left it whole and the hard split cut it.
C30_Witness ==
    /\ result.of = "split_text"
    /\ Len(call.text) = MaxTextLen
    /\ \A i \in 1..Len(call.text) : call.text[i] = "a"
    /\ call.chunk_size = MaxChunkSize
    /\ call.chunk_overlap = 1
    /\ Len(result.chunks) > 2

\* C29: merge_results returns at most top_k chunks and no chunk id twice,
\* also for a chunk in both rankings; a chunk of both rankings carries its
\* vector_score and its keyword_score, a chunk of one ranking only carries
\* that one score and not the other.
C29_MergeDistinctWithSourceScores ==
    result.of = "merge_results" =>
        LET out == result.chunks
        IN  /\ Len(out) <= call.top_k
            /\ \A i, j \in 1..Len(out) : out[i].id = out[j].id => i = j
            /\ \A i \in 1..Len(out) :
                   /\ out[i].vector_score =
                          (IF out[i].id \in SeqIds(call.vector_chunks)
                           THEN FirstWithId(call.vector_chunks,
                                            out[i].id).vector_score
                           ELSE NoScore)
                   /\ out[i].keyword_score =
                          (IF out[i].id \in SeqIds(call.keyword_chunks)
                           THEN FirstWithId(call.keyword_chunks,
                                            out[i].id).keyword_score
                           ELSE NoScore)

\* A fusion returned a chunk of both rankings and a chunk of the vector
\* ranking only, and left out a chunk of the keyword ranking only.
C29_Witness ==
    /\ result.of = "merge_results"
    /\ call.top_k = 2
    /\ Len(result.chunks) = 2
    /\ SeqIds(call.vector_chunks) \cup SeqIds(call.keyword_chunks) = Ids
    /\ result.chunks[1].vector_score.some
    /\ result.chunks[1].keyword_score.some
    /\ result.chunks[2].vector_score.some
    /\ ~result.chunks[2].keyword_score.some

\* C25: when parsing fails during import_document, the Document row ends
\* with status=error and the parse error message, the call returns that
\* error, and no Chunk, keyword posting or Vector is written and
\* document_count is unchanged.
C25_ParseFailureLeavesNoData ==
    [][(/\ imp.pc = "parsing"
        /\ imp.file.kind = "unsupported"
        /\ imp'.pc # "parsing") =>
           /\ imp.doc_id \in DOMAIN documents'
           /\ documents'[imp.doc_id].status = "error"
           /\ documents'[imp.doc_id].error_message = ParseError(imp.file)
           /\ result' = [of |-> "import_document", ok |-> FALSE,
                         error |-> ParseError(imp.file), doc_id |-> imp.doc_id]
           /\ chunks' = chunks
           /\ chunks_fts' = chunks_fts
           /\ vectors' = vectors
           /\ knowledge_bases' = knowledge_bases
           /\ db_mutex' = "free"]_vars

\* An import into a base that already holds a completed document with
\* chunks has returned the parse error.
C25_Witness ==
    /\ result.of = "import_document"
    /\ ~result.ok
    /\ documents[result.doc_id].status = "error"
    /\ \E d \in DocsOfKb(documents[result.doc_id].kb_id) :
          /\ documents[d].status = "completed"
          /\ ChunksOfDocs(chunks, {d}) # {}
          /\ knowledge_bases[documents[d].kb_id].document_count = 1

\* The lines of the body the decoder has received whole: all of them, or all
\* but the last when the body does not end with a newline.
ReceivedLines ==
    IF sent.nl THEN sent.lines ELSE SubSeq(sent.lines, 1, Len(sent.lines) - 1)

CountLines(lines, P(_)) == Cardinality({i \in 1..Len(lines) : P(lines[i])})

IsDoneLine(l) == l.kind = "done"

HasFragment(l) == l.kind = "content" /\ l.text # <<>>

\* C26: of the `data: ` lines received, one whose payload is not valid JSON
\* or whose fragment is absent or the empty string produces no event, one
\* with a non-empty fragment produces exactly one done=false event, and a
\* done=true event is produced only for the payload [DONE] and at the end
\* of the body.
C26_EventsPerDataLine ==
    (sresult = "Ok" /\ Len(sent.lines) >= 1) =>
        /\ Len(EmittedTexts(events)) = CountLines(ReceivedLines, HasFragment)
        /\ DoneCount(events) = CountLines(ReceivedLines, IsDoneLine) + 1

\* C27: within one stream_message request no done=false event is emitted
\* after a done=true event, whatever lines the server sends, data lines
\* after [DONE] included.
C27_NoContentAfterDone ==
    \A i, j \in 1..Len(events) :
        (i < j /\ events[i].done) => events[j].done

(***************************************************************************)
(* build_stream_request_body (commands/llm.rs 111-182) on message lists     *)
(* drawn from a bounded set.                                                *)
(***************************************************************************)
MaxMessages == 3

Roles == {"system", "user", "assistant", "tool"}

Contents == {"S", "U"}

\* ChatMessage, its role and content (llm.rs 11-18).
ChatMessages == [role : Roles, content : Contents]

MessageLists == UNION {[1..n -> ChatMessages] : n \in 0..MaxMessages}

BodyProviders == {"anthropic", "google", "openai"}

\* messages.iter().find(|m| m.role == "system").map(|m| m.content.clone()):
\* the empty sequence for None, else the content alone.
RECURSIVE FindSystem(_)
FindSystem(list) ==
    IF list = <<>> THEN <<>>
    ELSE IF Head(list).role = "system" THEN <<Head(list).content>>
    ELSE FindSystem(Tail(list))

\* .filter(|m| m.role != "system")
RECURSIVE WithoutSystem(_)
WithoutSystem(list) ==
    IF list = <<>> THEN <<>>
    ELSE (IF Head(list).role # "system" THEN <<Head(list)>> ELSE <<>>)
         \o WithoutSystem(Tail(list))

\* A mapping that passes every role on as it is.
AnthropicMessage_RoleKept(m) == [role |-> m.role, content |-> m.content]

\* The JSON values of the three branches; an object is a record.
AnthropicMessage(m) ==
    [role |-> IF m.role = "assistant" THEN "assistant" ELSE "user",
     content |-> m.content]

GoogleContent(m) ==
    [role |-> IF m.role = "assistant" THEN "model" ELSE "user",
     parts |-> <<[text |-> m.content]>>]

OpenAiMessage(m) == [role |-> m.role, content |-> m.content]

\* build_stream_request_body(provider, model, messages) (llm.rs 111-182)
build_stream_request_body(p, model, list) ==
    CASE p = "anthropic" ->
           LET system_msg == FindSystem(list)
               kept == WithoutSystem(list)
               msgs == [i \in 1..Len(kept) |-> AnthropicMessage(kept[i])]
               body == [model |-> model, messages |-> msgs,
                        max_tokens |-> 4096, stream |-> TRUE]
           IN IF system_msg # <<>>
              THEN [f \in DOMAIN body \cup {"system"} |->
                       IF f = "system" THEN system_msg[1] ELSE body[f]]
              ELSE body
      [] p = "google" ->
           LET kept == WithoutSystem(list)
           IN [contents |-> [i \in 1..Len(kept) |-> GoogleContent(kept[i])],
               generationConfig |-> [temperature |-> Rat(7, 10),
                                     maxOutputTokens |-> 4096]]
      [] OTHER ->
           [model |-> model,
            messages |-> [i \in 1..Len(list) |-> OpenAiMessage(list[i])],
            temperature |-> Rat(7, 10),
            stream |-> TRUE]

BodyInit ==
    /\ call \in [fn : {"build_stream_request_body"}, provider : BodyProviders,
                 model : {"claude-x"}, messages : MessageLists]
    /\ result = NoResult
    \* no chat request is made and the knowledge base is not used
    /\ provider = "openai"
    /\ sent = [lines |-> <<>>, nl |-> TRUE, crlf |-> FALSE]
    /\ wire = <<>>
    /\ buffer = <<>>
    /\ events = <<>>
    /\ spc = "idle"
    /\ sresult = "none"
    /\ foreign_keys = ForeignKeysEnforced
    /\ knowledge_bases = <<>>
    /\ documents = <<>>
    /\ chunks = <<>>
    /\ vectors = <<>>
    /\ chunks_fts = <<>>
    /\ db_mutex = "free"
    /\ imp = NoImport
    /\ next_kb = 1
    /\ next_doc = 1
    /\ sessions = <<>>
    /\ messages = <<>>
    /\ tasks = <<>>

BuildBody ==
    /\ call.fn = "build_stream_request_body"
    /\ result = NoResult
    /\ result' = [of |-> "build_stream_request_body",
                  body |-> build_stream_request_body(call.provider, call.model,
                                                     call.messages)]
    /\ UNCHANGED <<call, kbVars, streamVars, sessVars>>

BodySpec == BodyInit /\ [][BuildBody]_vars

\* C23: for provider anthropic and any message list the request body has
\* system equal to the content of the first message with role system (no
\* system field when there is none), messages equal to the non-system
\* messages in their order, each with role assistant when its role is
\* assistant and user otherwise, and max_tokens 4096 and stream true.
C23_AnthropicBody ==
    (result.of = "build_stream_request_body" /\ call.provider = "anthropic") =>
        LET msgs == call.messages
            body == result.body
            systems == {i \in 1..Len(msgs) : msgs[i].role = "system"}
            others == {i \in 1..Len(msgs) : msgs[i].role # "system"}
            place(i) == Cardinality({j \in others : j <= i})
        IN  /\ ("system" \in DOMAIN body) <=> (systems # {})
            /\ \A i \in systems :
                   (\A j \in systems : i <= j) => body.system = msgs[i].content
            /\ Len(body.messages) = Cardinality(others)
            /\ \A i \in others :
                   /\ body.messages[place(i)].content = msgs[i].content
                   /\ body.messages[place(i)].role =
                          (IF msgs[i].role = "assistant" THEN "assistant"
                           ELSE "user")
                   /\ DOMAIN body.messages[place(i)] = {"role", "content"}
            /\ body.max_tokens = 4096
            /\ body.stream = TRUE

\* A body was built for anthropic from a tool message followed by two system
\* messages with different contents.
C23_Witness ==
    /\ result.of = "build_stream_request_body"
    /\ call.provider = "anthropic"
    /\ Len(call.messages) = MaxMessages
    /\ call.messages[1].role = "tool"
    /\ call.messages[2] = [role |-> "system", content |-> "S"]
    /\ call.messages[3] = [role |-> "system", content |-> "U"]
    /\ result.body.system = "S"
    /\ Len(result.body.messages) = 1

(***************************************************************************)
(* generate_embeddings (knowledge_base/embedding.rs 29-147) against the     *)
(* answers an embedding server may give.                                    *)
(***************************************************************************)
\* Number of texts in one request, and of items and of array elements in
\* one answer.
MaxTexts == 2

EmbeddingProviders == {"openai", "zhipu"}

\* The elements of an `embedding` array: a JSON number or another value.
JsonElements == {"number", "string"}

\* The items of the `data` array: an object with an `embedding` array that
\* the server computed for the text at `index`, or an object without one.
DataItems ==
    [has_embedding : {TRUE}, index : 1..MaxTexts,
     embedding : UNION {[1..n -> JsonElements] : n \in 0..MaxTexts}]
    \cup [has_embedding : {FALSE}, index : {1}, embedding : {<<>>}]

\* The JSON bodies of a 200 answer: with a `data` array, or without.
JsonAnswers ==
    [has_data : {TRUE},
     data : UNION {[1..n -> DataItems] : n \in 0..MaxTexts}]
    \cup [has_data : {FALSE}, data : {<<>>}]

\* embedding.iter().filter_map(|v| v.as_f64()...).collect()
\* (embedding.rs 120-122, 138-140)
RECURSIVE NumbersOf(_)
NumbersOf(embedding) ==
    IF embedding = <<>> THEN <<>>
    ELSE (IF Head(embedding) = "number" THEN <<Head(embedding)>> ELSE <<>>)
         \o NumbersOf(Tail(embedding))

\* parse_embedding_response(json, provider): both branches read
\* data[].embedding the same way (embedding.rs 106-147).  A vector is its
\* numbers, with the index of the text the server computed it for.
parse_embedding_response(json, p) ==
    IF ~json.has_data
    THEN [ok |-> FALSE, error |-> "Invalid response format"]
    ELSE IF \E i \in 1..Len(json.data) : ~json.data[i].has_embedding
    THEN [ok |-> FALSE, error |-> "Missing embedding field"]
    ELSE [ok |-> TRUE,
          embeddings |-> [i \in 1..Len(json.data) |->
                            [index |-> json.data[i].index,
                             values |-> NumbersOf(json.data[i].embedding)]]]

EmbedInit ==
    /\ call \in [fn : {"generate_embeddings"},
                 texts : {[i \in 1..n |-> i] : n \in 0..MaxTexts},
                 provider : EmbeddingProviders,
                 pc : {"start"}, requests : {0}]
    /\ result = NoResult
    \* no chat request is made and the knowledge base is not used
    /\ provider = "openai"
    /\ sent = [lines |-> <<>>, nl |-> TRUE, crlf |-> FALSE]
    /\ wire = <<>>
    /\ buffer = <<>>
    /\ events = <<>>
    /\ spc = "idle"
    /\ sresult = "none"
    /\ foreign_keys = ForeignKeysEnforced
    /\ knowledge_bases = <<>>
    /\ documents = <<>>
    /\ chunks = <<>>
    /\ vectors = <<>>
    /\ chunks_fts = <<>>
    /\ db_mutex = "free"
    /\ imp = NoImport
    /\ next_kb = 1
    /\ next_doc = 1
    /\ sessions = <<>>
    /\ messages = <<>>
    /\ tasks = <<>>

\* texts.is_empty(): Ok(Vec::new()) at once (embedding.rs 35-37).
EmbedNothing ==
    /\ call.fn = "generate_embeddings"
    /\ call.pc = "start"
    /\ call.texts = <<>>
    /\ call' = [call EXCEPT !.pc = "returned"]
    /\ result' = [of |-> "generate_embeddings", ok |-> TRUE, embeddings |-> <<>>]
    /\ UNCHANGED <<kbVars, streamVars, sessVars>>

\* The request is built and sent (embedding.rs 39-84).
EmbedSend ==
    /\ call.fn = "generate_embeddings"
    /\ call.pc = "start"
    /\ call.texts # <<>>
    /\ call' = [call EXCEPT !.pc = "awaiting", !.requests = @ + 1]
    /\ UNCHANGED <<result, kbVars, streamVars, sessVars>>

\* send() fails, the status is not a success, or the body is not JSON
\* (embedding.rs 85, 87-91, 93-94).
EmbedFailed ==
    /\ call.fn = "generate_embeddings"
    /\ call.pc = "awaiting"
    /\ \E e \in {"Request failed", "API error", "Failed to parse response"} :
          result' = [of |-> "generate_embeddings", ok |-> FALSE, error |-> e]
    /\ call' = [call EXCEPT !.pc = "returned"]
    /\ UNCHANGED <<kbVars, streamVars, sessVars>>

\* The server answers 200 with a JSON body (embedding.rs 93-102).
EmbedAnswered ==
    /\ call.fn = "generate_embeddings"
    /\ call.pc = "awaiting"
    /\ \E json \in JsonAnswers :
          result' = [of |-> "generate_embeddings"]
                    @@ parse_embedding_response(json, call.provider)
    /\ call' = [call EXCEPT !.pc = "returned"]
    /\ UNCHANGED <<kbVars, streamVars, sessVars>>

EmbedNext ==
    \/ EmbedNothing
    \/ EmbedSend
    \/ EmbedFailed
    \/ EmbedAnswered

EmbedSpec == EmbedInit /\ [][EmbedNext]_vars

\* C22: when generate_embeddings returns Ok for n texts it returns exactly
\* n vectors, the i-th the embedding of the i-th text, all of one length;
\* for no text it returns the empty list without any network call.
C22_OneVectorPerText ==
    (result.of = "generate_embeddings" /\ result.ok) =>
        /\ Len(result.embeddings) = Len(call.texts)
        /\ \A i \in 1..Len(result.embeddings) :
               result.embeddings[i].index = call.texts[i]
        /\ \A i, j \in 1..Len(result.embeddings) :
               Len(result.embeddings[i].values) = Len(result.embeddings[j].values)
        /\ call.texts = <<>> => call.requests = 0

(***************************************************************************)
(* The session store (db.rs) and the commands that take DbState's mutex     *)
(* (main.rs 90-125, knowledge_base/commands.rs).  Several invocations are   *)
(* in flight at once.  The session commands act on the tables sessions and  *)
(* messages; the knowledge-base commands are followed here through their    *)
(* lock, their awaits and their return only: what they write is the         *)
(* subject of KbSpec.                                                       *)
(***************************************************************************)
MaxTasks == 2

MaxSessions == 2

MaxStoredMessages == 2

\* The invocations that may be in flight together.
Tasks == {ToString(i) : i \in 1..MaxTasks}

SessionIds == 1..MaxSessions

MessageIds == 1..MaxStoredMessages

Titles == {"a"}

\* Values of updated_at.
Times == {1, 2}

\* A ChatMessage as save_message is given it: message m was written at
\* time m (llm.rs 11-18).
MessageRow(session_id, m) == [session_id |-> session_id, timestamp |-> m]

\* What the frontend may invoke.
Requests ==
    [cmd : {"save_session_cmd"},
     session : [id : SessionIds, title : Titles, updated_at : Times]]
    \cup [cmd : {"save_message_cmd"}, session_id : SessionIds, message : MessageIds]
    \cup [cmd : {"delete_session_cmd"}, session_id : SessionIds]
    \cup [cmd : {"get_sessions_cmd", "create_knowledge_base",
                 "delete_knowledge_base", "delete_document", "import_document"}]

Idle == [pc |-> "idle"]

MessagesOf(msgs, S) == {m \in DOMAIN msgs : msgs[m].session_id \in S}

\* sessions(id) <- messages.session_id ON DELETE CASCADE (db.rs 46-60), in
\* effect when foreign keys are enforced.
CascadeMessages(msgs, S) ==
    IF foreign_keys THEN Delete(msgs, MessagesOf(msgs, S)) ELSE msgs

\* A save that updates the row in place.
save_session_InPlace(session) ==
    /\ sessions' = Insert(sessions, session.id,
                          [title |-> session.title, updated_at |-> session.updated_at])
    /\ messages' = messages

\* Database::save_session (db.rs 80-100): INSERT OR REPLACE deletes the row
\* that has the id, as a DELETE does, and inserts the new one.
save_session(session) ==
    /\ sessions' = Insert(sessions, session.id,
                          [title |-> session.title, updated_at |-> session.updated_at])
    /\ messages' = CascadeMessages(messages, {session.id} \cap DOMAIN sessions)

\* A delete of the session row alone.
delete_session_RowOnly(session_id) ==
    /\ sessions' = Delete(sessions, {session_id})
    /\ messages' = messages

\* Database::delete_session (db.rs 102-112)
delete_session(session_id) ==
    /\ sessions' = Delete(sessions, {session_id})
    /\ messages' = CascadeMessages(messages, {session_id} \cap DOMAIN sessions)

\* Database::save_message (db.rs 156-185): the INSERT fails on the foreign
\* key when the session does not exist and `?` returns; else updated_at is
\* set to the time of the call.
save_message(session_id, m, now) ==
    IF foreign_keys /\ session_id \notin DOMAIN sessions
    THEN UNCHANGED <<sessions, messages>>
    ELSE /\ messages' = Insert(messages, m, MessageRow(session_id, m))
         /\ sessions' = [s \in DOMAIN sessions |->
                           IF s = session_id
                           THEN [sessions[s] EXCEPT !.updated_at = now]
                           ELSE sessions[s]]

\* ORDER BY timestamp ASC
RECURSIVE ByTimestamp(_, _)
ByTimestamp(msgs, S) ==
    IF S = {} THEN <<>>
    ELSE LET m == CHOOSE x \in S : \A y \in S : msgs[x].timestamp <= msgs[y].timestamp
         IN <<[id |-> m, timestamp |-> msgs[m].timestamp]>>
            \o ByTimestamp(msgs, S \ {m})

\* Database::get_messages (db.rs 187-215) on the table msgs.
get_messages(msgs, session_id) == ByTimestamp(msgs, MessagesOf(msgs, {session_id}))

DbInit ==
    /\ sessions = <<>>
    /\ messages = <<>>
    /\ tasks = [t \in Tasks |-> Idle]
    /\ db_mutex = "free"
    /\ foreign_keys = ForeignKeysEnforced
    \* no chat request is made and no knowledge base exists
    /\ provider = "openai"
    /\ sent = [lines |-> <<>>, nl |-> TRUE, crlf |-> FALSE]
    /\ wire = <<>>
    /\ buffer = <<>>
    /\ events = <<>>
    /\ spc = "idle"
    /\ sresult = "none"
    /\ knowledge_bases = <<>>
    /\ documents = <<>>
    /\ chunks = <<>>
    /\ vectors = <<>>
    /\ chunks_fts = <<>>
    /\ imp = NoImport
    /\ next_kb = 1
    /\ next_doc = 1
    /\ call = NoCall
    /\ result = NoResult

dbRest == <<foreign_keys, knowledge_bases, documents, chunks, vectors,
            chunks_fts, imp, next_kb, next_doc, streamVars, fnVars>>

\* The frontend invokes a command: the future starts and waits for the lock.
Invoke(t) ==
    /\ result = NoResult
    /\ tasks[t] = Idle
    /\ \E req \in Requests :
          tasks' = [tasks EXCEPT ![t] = [pc |-> "waiting", req |-> req]]
    /\ UNCHANGED <<sessions, messages, db_mutex, dbRest>>

\* A lock that is granted whoever holds the mutex.
Lock_NotExclusive(t) ==
    /\ result = NoResult
    /\ tasks[t].pc = "waiting"
    /\ db_mutex' = t
    /\ tasks' = [tasks EXCEPT ![t].pc = "locked"]
    /\ UNCHANGED <<sessions, messages, dbRest>>

\* db_state.0.lock().await returns the guard (main.rs 96, 106, 114, 123;
\* commands.rs 31, 125, 151, 379).
Lock(t) ==
    /\ result = NoResult
    /\ tasks[t].pc = "waiting"
    /\ db_mutex = "free"
    /\ db_mutex' = t
    /\ tasks' = [tasks EXCEPT ![t].pc = "locked"]
    /\ UNCHANGED <<sessions, messages, dbRest>>

dbTables == <<foreign_keys, knowledge_bases, documents, chunks, vectors,
              chunks_fts, imp, next_kb, next_doc, streamVars, call>>

\* The command of task t returns `value` and its guard is dropped.
Return(t, value) ==
    /\ tasks' = [tasks EXCEPT ![t] = Idle]
    /\ db_mutex' = "free"
    /\ result' = [of |-> tasks[t].req.cmd, req |-> tasks[t].req, task |-> t,
                  value |-> value]

\* What a session command found when it started: whether the session was
\* there, and its messages.
Found(session_id) ==
    [existed |-> session_id \in DOMAIN sessions,
     messages |-> get_messages(messages, session_id)]

\* save_session_cmd (main.rs 91-98)
SaveSessionCmd(t) ==
    /\ result = NoResult
    /\ tasks[t].pc = "locked"
    /\ tasks[t].req.cmd = "save_session_cmd"
    /\ save_session(tasks[t].req.session)
    /\ Return(t, Found(tasks[t].req.session.id))
    /\ UNCHANGED dbTables

\* save_message_cmd (main.rs 100-108)
SaveMessageCmd(t) ==
    /\ result = NoResult
    /\ tasks[t].pc = "locked"
    /\ tasks[t].req.cmd = "save_message_cmd"
    /\ \E now \in Times :
          save_message(tasks[t].req.session_id, tasks[t].req.message, now)
    /\ Return(t, Found(tasks[t].req.session_id))
    /\ UNCHANGED dbTables

\* delete_session_cmd (main.rs 118-125)
DeleteSessionCmd(t) ==
    /\ result = NoResult
    /\ tasks[t].pc = "locked"
    /\ tasks[t].req.cmd = "delete_session_cmd"
    /\ delete_session(tasks[t].req.session_id)
    /\ Return(t, Found(tasks[t].req.session_id))
    /\ UNCHANGED dbTables

\* get_sessions_cmd (main.rs 110-116): reads only; every session comes with
\* its messages (db.rs 114-150).
GetSessionsCmd(t) ==
    /\ result = NoResult
    /\ tasks[t].pc = "locked"
    /\ tasks[t].req.cmd = "get_sessions_cmd"
    /\ Return(t, [s \in DOMAIN sessions |-> get_messages(messages, s)])
    /\ UNCHANGED <<sessions, messages, dbTables>>

\* create_knowledge_base, delete_knowledge_base, delete_document: their
\* statements on the metadata store and on the vector store, all between
\* the lock and the return (commands.rs 31-77, 125-139, 379-406).
KbWriteCmd(t) ==
    /\ result = NoResult
    /\ tasks[t].pc = "locked"
    /\ tasks[t].req.cmd \in {"create_knowledge_base", "delete_knowledge_base",
                             "delete_document"}
    /\ Return(t, "done")
    /\ UNCHANGED <<sessions, messages, dbTables>>

\* import_document inserts the Document row and awaits parse_document
\* (commands.rs 151-218), or returns an error before it.
ImportDocumentRow(t) ==
    /\ result = NoResult
    /\ tasks[t].pc = "locked"
    /\ tasks[t].req.cmd = "import_document"
    /\ \/ /\ tasks' = [tasks EXCEPT ![t].pc = "parsing"]
          /\ UNCHANGED <<db_mutex, result>>
       \/ Return(t, "error")
    /\ UNCHANGED <<sessions, messages, dbTables>>

\* import_document writes the chunks and postings and awaits the embeddings
\* (commands.rs 230-281), or marks the parse error and returns (220-227).
ImportDocumentChunks(t) ==
    /\ result = NoResult
    /\ tasks[t].pc = "parsing"
    /\ \/ /\ tasks' = [tasks EXCEPT ![t].pc = "embedding"]
          /\ UNCHANGED <<db_mutex, result>>
       \/ Return(t, "error")
    /\ UNCHANGED <<sessions, messages, dbTables>>

\* import_document writes the vectors, the status and the count and returns
\* (commands.rs 283-322), or returns the embedding error (276-281).
ImportDocumentVectors(t) ==
    /\ result = NoResult
    /\ tasks[t].pc = "embedding"
    /\ \E value \in {"done", "error"} : Return(t, value)
    /\ UNCHANGED <<sessions, messages, dbTables>>

DbNext ==
    \/ \E t \in Tasks :
        \/ Invoke(t)
        \/ Lock(t)
        \/ SaveSessionCmd(t)
        \/ SaveMessageCmd(t)
        \/ DeleteSessionCmd(t)
        \/ GetSessionsCmd(t)
        \/ KbWriteCmd(t)
        \/ ImportDocumentRow(t)
        \/ ImportDocumentChunks(t)
        \/ ImportDocumentVectors(t)
    \/ ResultTaken

DbSpec == DbInit /\ [][DbNext]_vars

\* A task at one of these places has the guard: it is between the return of
\* lock() and its own return, where all its statements are.
HoldingPcs == {"locked", "parsing", "embedding"}

\* C21: the writes to the metadata store and to the vector store are
\* serialized by the one mutex: every writing command (the session and
\* message saves and deletes, create and delete of a base, import_document,
\* delete_document) runs its statements while holding it, so the writes of
\* two concurrent import_document calls never interleave.
C21_WritesSerialized ==
    [][/\ \A t \in Tasks :
             (tasks[t].pc \in HoldingPcs /\ tasks'[t] # tasks[t]) =>
                 /\ db_mutex = t
                 /\ \A u \in Tasks \ {t} : tasks[u].pc \notin HoldingPcs
       /\ (sessions' # sessions \/ messages' # messages) =>
              \E t \in Tasks : /\ db_mutex = t
                               /\ tasks[t].pc = "locked"
                               /\ tasks'[t] = Idle]_vars

\* Two import_document calls are in flight: one has written its chunks and
\* awaits the embeddings, the other waits for the lock.
C21_Witness ==
    \E t, u \in Tasks :
        /\ t # u
        /\ tasks[t].pc = "embedding"
        /\ tasks[u].pc = "waiting"
        /\ tasks[u].req.cmd = "import_document"
        /\ db_mutex = t

\* C24: a session owns its messages: after delete_session(id) no message
\* row with that session_id remains and get_messages(id) returns the empty
\* list, and the messages of every other session are unchanged.
C24_DeleteSessionCascade ==
    [][\A t \in Tasks :
          (/\ tasks[t].pc = "locked"
           /\ tasks[t].req.cmd = "delete_session_cmd"
           /\ tasks'[t] = Idle) =>
              LET id == tasks[t].req.session_id
              IN /\ \A m \in DOMAIN messages' : messages'[m].session_id # id
                 /\ get_messages(messages', id) = <<>>
                 /\ \A m \in DOMAIN messages :
                        messages[m].session_id # id =>
                            /\ m \in DOMAIN messages'
                            /\ messages'[m] = messages[m]
                 /\ \A s \in SessionIds \ {id} :
                        get_messages(messages', s) = get_messages(messages, s)]_vars

\* A session that had a message has been deleted while another session has
\* one, too.
C24_Witness ==
    /\ result.of = "delete_session_cmd"
    /\ result.value.existed
    /\ result.value.messages # <<>>
    /\ \E m \in DOMAIN messages : messages[m].session_id # result.req.session_id

\* C28: save_session for a session id that exists updates that session's
\* row and leaves the session's stored messages unchanged: get_messages(id)
\* returns the same list before and after the call.
C28_SaveSessionKeepsMessages ==
    [][\A t \in Tasks :
          (/\ tasks[t].pc = "locked"
           /\ tasks[t].req.cmd = "save_session_cmd"
           /\ tasks[t].req.session.id \in DOMAIN sessions
           /\ tasks'[t] = Idle) =>
              LET id == tasks[t].req.session.id
              IN /\ sessions'[id] = [title |-> tasks[t].req.session.title,
                                     updated_at |-> tasks[t].req.session.updated_at]
                 /\ get_messages(messages', id) = get_messages(messages, id)]_vars

====
